---- MODULE Spec2Model ----
(***************************************************************************)
(* A model of opendsa::deque (src/include/deque.h): the map of nodes, the  *)
(* two boundary iterators, the buffers they refer to and the operations    *)
(* that grow, shrink and shift them.                                       *)
(*                                                                         *)
(* Memory is modelled explicitly.  A buffer is named by an id; heap[id] is *)
(* <<>> when the id is not allocated and a sequence of get_nnodes cells    *)
(* when it is.  A cell is Raw (storage without an object) or holds an      *)
(* element value.  A pointer into a buffer is a pair (buffer id, offset):  *)
(* an iterator's _first is its field first (a buffer id), its _curr is     *)
(* first + curr, its _last is first + get_nnodes, and its _node is an      *)
(* index into the map array (0 is the null pointer).                       *)
(*                                                                         *)
(* Every operation is a function on a machine record m that holds the      *)
(* deque's members, the heap, and the control state of the call: exc (an   *)
(* exception is propagating), ub (the call has run into undefined          *)
(* behaviour), af / cf (the af-th allocation / cf-th element construction  *)
(* from now on throws; 0 is never), oom (the model has no buffer id left), *)
(* wild (the call has destroyed or assigned to storage with no object).    *)
(*                                                                         *)
(* The state is the deque dq with the heap, a second deque `other` that    *)
(* lives in the same heap once a copy or move constructor has made it, and *)
(* ghosts: abs (the list dq should hold), last (what the last call was),   *)
(* ub (the behaviour has become undefined) and seen (what the caller has   *)
(* read from the deque so far).                                            *)
(***************************************************************************)
EXTENDS Integers, Sequences, FiniteSets, TLC

VARIABLES dq, heap, abs, last, ub, other, seen

vars == <<dq, heap, abs, last, ub, other, seen>>

\* --------------------------------------------------------------- bounds
\* sizeof(value_type) of the instantiation that is checked
SizeOfType == 256
\* the largest number of elements a push or single insertion may reach (a
\* bulk insertion may reach one more)
MaxLen == 5
\* the largest number of elements of each deque where there are two
MaxPair == 3
\* the largest number of calls on two deques
MaxCalls == 4
\* the largest number of elements where the growth of the map is followed
MaxGrow == 24
\* the largest number of elements where pushes at both ends fill the map
MaxMap == 12
\* the largest count / list length of a bulk insert
MaxBulk == 3
\* element values
Values == {1, 2}

\* ------------------------------------------------------ program constants
DEQUE_DEFAULT_BUFFER_SIZE == 512
INITIAL_MAP_SIZE == 8
\* the null pointer (a map slot, a node pointer or a buffer pointer)
Null == 0
\* a cell of allocated storage that holds no object
Raw == 0
\* an indeterminate or invalid pointer: a slot of a map array that was never
\* written, or a pointer to storage that has been released
Indet == -1

get_deque_buffer_size(size_of_type) ==
    IF size_of_type < DEQUE_DEFAULT_BUFFER_SIZE
    THEN DEQUE_DEFAULT_BUFFER_SIZE \div size_of_type
    ELSE 1

get_nnodes == get_deque_buffer_size(SizeOfType)

_max_nodes == get_deque_buffer_size(SizeOfType)

Max(a, b) == IF a > b THEN a ELSE b

\* buffer ids of the model's heap
BufIds == 1..Max(MaxLen + MaxBulk + 4, (MaxGrow \div get_nnodes) + 2)

\* ------------------------------------------------------------- iterator
\* deque_iterator(): all members null
NullIter == [curr |-> 0, first |-> Null, node |-> Null]

\* *node for a map pointer; outside the map array the read is wild and is
\* modelled as yielding the null pointer (every later access through it is
\* undefined behaviour)
Slot(map, node) == IF node \in 1..Len(map) THEN map[node] ELSE Null

\* set_node: _node = node; _first = *node; _last = _first + get_nnodes().
\* _curr is left alone: every caller assigns it next, or the slot holds the
\* buffer the iterator already refers to.
set_node(it, map, node) == [it EXCEPT !.node = node, !.first = Slot(map, node)]

\* operator++
IterInc(it, map) ==
    IF it.curr + 1 = get_nnodes
    THEN [set_node(it, map, it.node + 1) EXCEPT !.curr = 0]
    ELSE [it EXCEPT !.curr = it.curr + 1]

\* operator-- that stays in the buffer it is in
IterDec_stay(it, map) == [it EXCEPT !.curr = (it.curr - 1) % get_nnodes]

\* operator--
IterDec(it, map) ==
    IF it.curr = 0
    THEN [set_node(it, map, it.node - 1) EXCEPT !.curr = get_nnodes - 1]
    ELSE [it EXCEPT !.curr = it.curr - 1]

\* operator+= that stays in the buffer it is in
IterPlus_stay(it, map, n) == [it EXCEPT !.curr = (it.curr + n) % get_nnodes]

\* operator+= whose node offset is the quotient truncated toward zero
IterPlus_trunc(it, map, n) ==
    LET elm_offset == n + it.curr IN
    IF elm_offset >= 0 /\ elm_offset < get_nnodes
    THEN [it EXCEPT !.curr = it.curr + n]
    ELSE LET node_offset ==
                 IF elm_offset > 0
                 THEN elm_offset \div get_nnodes
                 ELSE -((-elm_offset) \div get_nnodes)
         IN [set_node(it, map, it.node + node_offset) EXCEPT
                !.curr = elm_offset - node_offset * get_nnodes]

\* operator+= (and operator+): n may be negative
IterPlus(it, map, n) ==
    LET elm_offset == n + it.curr IN
    IF elm_offset >= 0 /\ elm_offset < get_nnodes
    THEN [it EXCEPT !.curr = it.curr + n]
    ELSE LET node_offset ==
                 IF elm_offset > 0
                 THEN elm_offset \div get_nnodes
                 ELSE -((-elm_offset - 1) \div get_nnodes) - 1
         IN [set_node(it, map, it.node + node_offset) EXCEPT
                !.curr = elm_offset - node_offset * get_nnodes]

\* operator-= (and operator-(iterator, n))
IterMinus(it, map, n) == IterPlus(it, map, -n)

\* operator-(lhs, rhs) that counts the nodes from rhs._node to lhs._node
\* without taking one off
IterDiff_nodes(lhs, rhs) ==
    get_nnodes * (lhs.node - rhs.node)
    + lhs.curr
    + ((IF rhs.first = Null THEN 0 ELSE get_nnodes) - rhs.curr)

\* operator-(lhs, rhs): the number of elements between two iterators
IterDiff(lhs, rhs) ==
    get_nnodes * (lhs.node - rhs.node - (IF lhs.node # Null THEN 1 ELSE 0))
    + lhs.curr
    + ((IF rhs.first = Null THEN 0 ELSE get_nnodes) - rhs.curr)

\* operator==: lhs._curr == rhs._curr
IterEq(lhs, rhs) == lhs.first = rhs.first /\ lhs.curr = rhs.curr

\* operator<
IterLess(lhs, rhs) ==
    IF lhs.node = rhs.node THEN lhs.curr < rhs.curr ELSE lhs.node < rhs.node

\* operator!=: !(lhs == rhs)
IterNe(lhs, rhs) == ~IterEq(lhs, rhs)

\* operator>: rhs < lhs
IterGreater(lhs, rhs) == IterLess(rhs, lhs)

\* operator<=: !(rhs < lhs)
IterLessEq(lhs, rhs) == ~IterLess(rhs, lhs)

\* operator>=: !(lhs > rhs)
IterGreaterEq(lhs, rhs) == ~IterGreater(lhs, rhs)

\* operator++(int): temp = *this; ++*this; return temp.  What the call
\* returns is ret, what it leaves the iterator at is it.
IterPostInc(it, map) == [ret |-> it, it |-> IterInc(it, map)]

\* operator--(int): temp = *this; ++*this; return temp.  (The member is
\* declared const, so a use of it is accepted under -fpermissive only.)
IterPostDec(it, map) == [ret |-> it, it |-> IterInc(it, map)]

\* n times --it
RECURSIVE Retreat(_, _, _)
Retreat(it, map, n) ==
    IF n <= 0 THEN it ELSE Retreat(IterDec(it, map), map, n - 1)

\* -------------------------------------------------------------- machine
\* The call is over: an exception propagates, or the behaviour is undefined,
\* or the model's heap is exhausted.
Stop(m) == m.exc \/ m.ub \/ m.oom

Machine(d, h, af, cf) ==
    [start |-> d.start, finish |-> d.finish, map |-> d.map,
     map_size |-> d.map_size, heap |-> h,
     exc |-> FALSE, ub |-> FALSE, oom |-> FALSE, af |-> af, cf |-> cf,
     ret |-> 0, wild |-> FALSE]

DequeOf(m) ==
    [start |-> m.start, finish |-> m.finish, map |-> m.map,
     map_size |-> m.map_size]

Throw(m) == [m EXCEPT !.exc = TRUE]

Allocated(h, b) == b \in DOMAIN h /\ h[b] # <<>>

FreeIds(h) == {b \in DOMAIN h : h[b] = <<>>}

LeastFree(h) == CHOOSE b \in FreeIds(h) : \A c \in FreeIds(h) : b <= c

\* one allocation is counted: the af-th one throws
CountAlloc(m) == [m EXCEPT !.af = IF m.af > 0 THEN m.af - 1 ELSE 0]

\* _Tp_alloc_traits::allocate(_alloc, _max_nodes()): a buffer of raw cells;
\* its id is left in m.ret
AllocBuf(m) ==
    IF Stop(m) THEN m
    ELSE IF m.af = 1 THEN Throw(CountAlloc(m))
    ELSE IF FreeIds(m.heap) = {} THEN [m EXCEPT !.oom = TRUE]
    ELSE LET b == LeastFree(m.heap) IN
         [CountAlloc(m) EXCEPT !.heap[b] = [k \in 1.._max_nodes |-> Raw],
                               !.ret = b]

\* _Tp_alloc_traits::deallocate(_alloc, p, _max_nodes()) for the buffer
\* pointer p: releasing the null pointer does nothing, releasing anything
\* else that is not an allocated buffer is undefined.  When the storage
\* goes, every copy of the pointer left in the map becomes an invalid
\* pointer value (Indet).
DeallocBuf(m, b) ==
    IF Stop(m) THEN m
    ELSE IF b = Null THEN m
    ELSE IF Allocated(m.heap, b)
    THEN [m EXCEPT !.heap[b] = <<>>,
                   !.map = [k \in 1..Len(m.map) |->
                               IF m.map[k] = b THEN Indet ELSE m.map[k]]]
    ELSE [m EXCEPT !.ub = TRUE]

\* _Map_alloc_traits::allocate(_map_alloc, n): n slots of indeterminate value
AllocMap(m, n) ==
    IF Stop(m) THEN m
    ELSE IF m.af = 1 THEN Throw(CountAlloc(m))
    ELSE [CountAlloc(m) EXCEPT !.map = [k \in 1..n |-> Indet]]

\* *node = p for a map pointer: a write outside the map array is undefined
SetSlot(m, node, p) ==
    IF Stop(m) THEN m
    ELSE IF node \in 1..Len(m.map) THEN [m EXCEPT !.map[node] = p]
    ELSE [m EXCEPT !.ub = TRUE]

\* the cell at first + curr of an iterator (or of a raw pointer pair)
ValidCell(m, b, o) == Allocated(m.heap, b) /\ o \in 0..(_max_nodes - 1)

\* reading through a pointer
Load(m, b, o) == IF ValidCell(m, b, o) THEN m.heap[b][o + 1] ELSE Raw

\* a write of the cell at b + o; outside allocated storage it is undefined
Put(m, b, o, v) ==
    IF Stop(m) THEN m
    ELSE IF ValidCell(m, b, o) THEN [m EXCEPT !.heap[b][o + 1] = v]
    ELSE [m EXCEPT !.ub = TRUE]

\* whether the cell at b + o is storage that holds no object
NoObject(m, b, o) == ValidCell(m, b, o) /\ Load(m, b, o) = Raw

\* assignment through a pointer (*p = v); m.wild records that the call has
\* assigned to, or destroyed, storage that holds no object
Store(m, b, o, v) ==
    IF Stop(m) THEN m
    ELSE IF NoObject(m, b, o) THEN [Put(m, b, o, v) EXCEPT !.wild = TRUE]
    ELSE Put(m, b, o, v)

\* _Tp_alloc_traits::construct(_alloc, p, v): the cf-th construction throws
Construct(m, b, o, v) ==
    IF Stop(m) THEN m
    ELSE IF m.cf = 1 THEN Throw([m EXCEPT !.cf = 0])
    ELSE Put([m EXCEPT !.cf = IF m.cf > 0 THEN m.cf - 1 ELSE 0], b, o, v)

\* _Tp_alloc_traits::destroy(_alloc, p): the object's lifetime ends
Destroy(m, b, o) ==
    IF Stop(m) THEN m
    ELSE IF NoObject(m, b, o) THEN [m EXCEPT !.wild = TRUE]
    ELSE Put(m, b, o, Raw)

\* --------------------------------------------------------- node storage
\* _deallocate_nodes(first, last): releases *curr for curr in [first, last)
RECURSIVE _deallocate_nodes(_, _, _)
_deallocate_nodes(m, first, lst) ==
    IF Stop(m) \/ first >= lst THEN m
    ELSE _deallocate_nodes(DeallocBuf(m, Slot(m.map, first)), first + 1, lst)

\* the loop of _create_nodes; m.ret is the value of curr when it ends
RECURSIVE CreateLoop(_, _, _)
CreateLoop(m, curr, map_finish) ==
    IF curr >= map_finish THEN [m EXCEPT !.ret = curr]
    ELSE LET AfterAlloc(a) ==
                 IF Stop(a) THEN [a EXCEPT !.ret = curr]
                 ELSE CreateLoop(SetSlot(a, curr, a.ret), curr + 1,
                                 map_finish)
         IN AfterAlloc(AllocBuf(m))

\* _create_nodes(map_start, map_finish)
_create_nodes(m, map_start, map_finish) ==
    IF Stop(m) THEN m
    ELSE LET AfterLoop(t) ==
                 IF t.exc
                 THEN Throw(_deallocate_nodes([t EXCEPT !.exc = FALSE],
                                              map_start, t.ret))
                 ELSE t
         IN AfterLoop(CreateLoop(m, map_start, map_finish))

\* _initialize_map(num_elms)
_initialize_map(m, num_elms) ==
    IF Stop(m) THEN m
    ELSE LET num_nodes == (num_elms \div _max_nodes) + 1
             msize == Max(INITIAL_MAP_SIZE, num_nodes + 2)
             map_start == 1 + ((msize - num_nodes) \div 2)
             map_finish == map_start + num_nodes
             AfterNodes(c) ==
                 IF c.exc
                 THEN [c EXCEPT !.map = <<>>, !.map_size = 0]
                 ELSE IF Stop(c) THEN c
                 ELSE LET s == [set_node(c.start, c.map, map_start)
                                   EXCEPT !.curr = 0]
                          f == [set_node(c.finish, c.map, map_finish - 1)
                                   EXCEPT !.curr = num_elms % _max_nodes]
                      IN [c EXCEPT !.start = s, !.finish = f]
             AfterMap(a) ==
                 IF Stop(a) THEN a
                 ELSE AfterNodes(_create_nodes(
                          [a EXCEPT !.map_size = msize,
                                    !.map = [k \in 1..msize |-> Null]],
                          map_start, map_finish))
         IN AfterMap(AllocMap(m, msize))

\* std::copy / std::copy_backward of the map slots [from, from + n) to
\* [to, to + n) inside one array
MoveSlots(map, from, n, to) ==
    [k \in 1..Len(map) |->
        IF k >= to /\ k < to + n THEN map[from + (k - to)] ELSE map[k]]

\* _reallocate_map whose new array has room for the nodes to add and no more
_reallocate_map_linear(m, nodes_to_add, at_front) ==
    IF Stop(m) THEN m
    ELSE LET old_num_nodes == m.finish.node - m.start.node + 1
             new_num_nodes == old_num_nodes + nodes_to_add
             InMap == /\ m.start.node \in 1..Len(m.map)
                      /\ m.finish.node \in 1..Len(m.map)
         IN IF m.map_size > 2 * new_num_nodes
            THEN LET new_map_start ==
                         1 + ((m.map_size - new_num_nodes) \div 2)
                         + (IF at_front THEN nodes_to_add ELSE 0)
                     nm == MoveSlots(m.map, m.start.node, old_num_nodes,
                                     new_map_start)
                 IN IF ~InMap THEN [m EXCEPT !.ub = TRUE]
                    ELSE [m EXCEPT
                            !.map = nm,
                            !.start = set_node(m.start, nm, new_map_start),
                            !.finish = set_node(m.finish, nm,
                                           new_map_start + old_num_nodes - 1)]
            ELSE LET new_map_size ==
                         m.map_size + nodes_to_add + 2
                     new_map_start ==
                         1 + ((new_map_size - new_num_nodes) \div 2)
                         + (IF at_front THEN nodes_to_add ELSE 0)
                     nm == [k \in 1..new_map_size |->
                              IF k >= new_map_start
                                 /\ k < new_map_start + old_num_nodes
                              THEN m.map[m.start.node + (k - new_map_start)]
                              ELSE Indet]
                     AfterMap(a) ==
                         IF Stop(a) THEN a
                         ELSE IF ~InMap THEN [a EXCEPT !.ub = TRUE]
                         ELSE [a EXCEPT
                                 !.map = nm,
                                 !.map_size = new_map_size,
                                 !.start = set_node(m.start, nm, new_map_start),
                                 !.finish = set_node(m.finish, nm,
                                           new_map_start + old_num_nodes - 1)]
                 IN AfterMap(AllocMap(m, new_map_size))

\* _reallocate_map(nodes_to_add, at_front): std::copy reads the slots
\* [_start._node, _finish._node]; reading them outside the map array (the
\* null map of a moved-from deque) is undefined
_reallocate_map(m, nodes_to_add, at_front) ==
    IF Stop(m) THEN m
    ELSE LET old_num_nodes == m.finish.node - m.start.node + 1
             new_num_nodes == old_num_nodes + nodes_to_add
             InMap == /\ m.start.node \in 1..Len(m.map)
                      /\ m.finish.node \in 1..Len(m.map)
         IN IF m.map_size > 2 * new_num_nodes
            THEN LET new_map_start ==
                         1 + ((m.map_size - new_num_nodes) \div 2)
                         + (IF at_front THEN nodes_to_add ELSE 0)
                     nm == MoveSlots(m.map, m.start.node, old_num_nodes,
                                     new_map_start)
                 IN IF ~InMap THEN [m EXCEPT !.ub = TRUE]
                    ELSE [m EXCEPT
                            !.map = nm,
                            !.start = set_node(m.start, nm, new_map_start),
                            !.finish = set_node(m.finish, nm,
                                           new_map_start + old_num_nodes - 1)]
            ELSE LET new_map_size ==
                         m.map_size + Max(m.map_size, nodes_to_add) + 2
                     new_map_start ==
                         1 + ((new_map_size - new_num_nodes) \div 2)
                         + (IF at_front THEN nodes_to_add ELSE 0)
                     nm == [k \in 1..new_map_size |->
                              IF k >= new_map_start
                                 /\ k < new_map_start + old_num_nodes
                              THEN m.map[m.start.node + (k - new_map_start)]
                              ELSE Indet]
                     AfterMap(a) ==
                         IF Stop(a) THEN a
                         ELSE IF ~InMap THEN [a EXCEPT !.ub = TRUE]
                         ELSE [a EXCEPT
                                 !.map = nm,
                                 !.map_size = new_map_size,
                                 !.start = set_node(m.start, nm, new_map_start),
                                 !.finish = set_node(m.finish, nm,
                                           new_map_start + old_num_nodes - 1)]
                 IN AfterMap(AllocMap(m, new_map_size))

\* _reserve_map_at_front(nodes_to_add)
_reserve_map_at_front(m, nodes_to_add) ==
    IF Stop(m) THEN m
    ELSE IF nodes_to_add > m.start.node - 1
    THEN _reallocate_map(m, nodes_to_add, TRUE)
    ELSE m

\* _reserve_map_at_back(nodes_to_add)
_reserve_map_at_back(m, nodes_to_add) ==
    IF Stop(m) THEN m
    ELSE IF nodes_to_add + 1 > m.map_size - (m.finish.node - 1)
    THEN _reallocate_map(m, nodes_to_add, FALSE)
    ELSE m

\* ------------------------------------------------------------- capacity
\* size(): _finish - _start
size(m) == IterDiff(m.finish, m.start)

\* empty(): _finish == _start
empty(m) == IterEq(m.finish, m.start)

\* ------------------------------------------------------------ push / pop
\* _push_front_aux(args...)
_push_front_aux(m, x) ==
    IF Stop(m) THEN m
    ELSE LET AfterConstruct(c) ==
                 IF c.exc
                 THEN LET u == [c EXCEPT !.exc = FALSE,
                                         !.start = IterInc(c.start, c.map)]
                      IN Throw(DeallocBuf(u, Slot(u.map, u.start.node - 1)))
                 ELSE c
             AfterAlloc(a) ==
                 IF Stop(a) THEN a
                 ELSE LET w == SetSlot(a, a.start.node - 1, a.ret)
                          s == [set_node(w.start, w.map, w.start.node - 1)
                                   EXCEPT !.curr = _max_nodes - 1]
                      IN AfterConstruct(Construct([w EXCEPT !.start = s],
                                                  s.first, s.curr, x))
         IN AfterAlloc(AllocBuf(_reserve_map_at_front(m, 1)))

\* _push_back_aux with a handler that rethrows without releasing the new
\* buffer
_push_back_aux_leak(m, x) ==
    IF Stop(m) THEN m
    ELSE LET AfterConstruct(c) ==
                 IF Stop(c) THEN c
                 ELSE [c EXCEPT !.finish =
                         [set_node(c.finish, c.map, c.finish.node + 1)
                             EXCEPT !.curr = 0]]
             AfterAlloc(a) ==
                 IF Stop(a) THEN a
                 ELSE AfterConstruct(
                          Construct(SetSlot(a, a.finish.node + 1, a.ret),
                                    a.finish.first, a.finish.curr, x))
         IN AfterAlloc(AllocBuf(_reserve_map_at_back(m, 1)))

\* _push_back_aux(args...)
_push_back_aux(m, x) ==
    IF Stop(m) THEN m
    ELSE LET AfterConstruct(c) ==
                 IF c.exc
                 THEN Throw(DeallocBuf([c EXCEPT !.exc = FALSE],
                                       Slot(c.map, c.finish.node + 1)))
                 ELSE IF Stop(c) THEN c
                 ELSE [c EXCEPT !.finish =
                         [set_node(c.finish, c.map, c.finish.node + 1)
                             EXCEPT !.curr = 0]]
             AfterAlloc(a) ==
                 IF Stop(a) THEN a
                 ELSE AfterConstruct(
                          Construct(SetSlot(a, a.finish.node + 1, a.ret),
                                    a.finish.first, a.finish.curr, x))
         IN AfterAlloc(AllocBuf(_reserve_map_at_back(m, 1)))

\* emplace_front(args...)
emplace_front(m, x) ==
    IF Stop(m) THEN m
    ELSE IF m.start.curr # 0
    THEN LET AfterConstruct(c) ==
                 IF Stop(c) THEN c
                 ELSE [c EXCEPT !.start.curr = c.start.curr - 1]
         IN AfterConstruct(Construct(m, m.start.first, m.start.curr - 1, x))
    ELSE _push_front_aux(m, x)

\* emplace_back(args...)
emplace_back(m, x) ==
    IF Stop(m) THEN m
    ELSE IF m.finish.curr # _max_nodes - 1
    THEN LET AfterConstruct(c) ==
                 IF Stop(c) THEN c
                 ELSE [c EXCEPT !.finish.curr = c.finish.curr + 1]
         IN AfterConstruct(Construct(m, m.finish.first, m.finish.curr, x))
    ELSE _push_back_aux(m, x)

\* push_front(const value_type &); push_front(value_type &&) is emplace_front
push_front(m, x) ==
    IF Stop(m) THEN m
    ELSE IF m.start.curr # 0
    THEN LET AfterConstruct(c) ==
                 IF Stop(c) THEN c
                 ELSE [c EXCEPT !.start.curr = c.start.curr - 1]
         IN AfterConstruct(Construct(m, m.start.first, m.start.curr - 1, x))
    ELSE _push_front_aux(m, x)

\* push_back(const value_type &); push_back(value_type &&) is emplace_back
push_back(m, x) ==
    IF Stop(m) THEN m
    ELSE IF m.finish.curr # _max_nodes - 1
    THEN LET AfterConstruct(c) ==
                 IF Stop(c) THEN c
                 ELSE [c EXCEPT !.finish.curr = c.finish.curr + 1]
         IN AfterConstruct(Construct(m, m.finish.first, m.finish.curr, x))
    ELSE _push_back_aux(m, x)

\* _pop_front_aux that releases the buffer and stays in its node
_pop_front_aux_stay(m) ==
    LET AfterRelease(f) ==
            IF Stop(f) THEN f ELSE [f EXCEPT !.start.curr = 0]
    IN AfterRelease(DeallocBuf(Destroy(m, m.start.first, m.start.curr),
                               m.start.first))

\* _pop_front_aux()
_pop_front_aux(m) ==
    LET AfterRelease(f) ==
            IF Stop(f) THEN f
            ELSE [f EXCEPT !.start = [set_node(f.start, f.map, f.start.node + 1)
                                         EXCEPT !.curr = 0]]
    IN AfterRelease(DeallocBuf(Destroy(m, m.start.first, m.start.curr),
                               m.start.first))

\* _pop_back_aux()
_pop_back_aux(m) ==
    LET AfterRelease(f) ==
            IF Stop(f) THEN f
            ELSE LET fi == [set_node(f.finish, f.map, f.finish.node - 1)
                               EXCEPT !.curr = _max_nodes - 1]
                 IN Destroy([f EXCEPT !.finish = fi], fi.first, fi.curr)
    IN AfterRelease(DeallocBuf(m, m.finish.first))

\* pop_front()
pop_front(m) ==
    IF Stop(m) THEN m
    ELSE IF m.start.curr # _max_nodes - 1
    THEN LET AfterDestroy(d) ==
                 IF Stop(d) THEN d
                 ELSE [d EXCEPT !.start.curr = d.start.curr + 1]
         IN AfterDestroy(Destroy(m, m.start.first, m.start.curr))
    ELSE _pop_front_aux(m)

\* pop_back()
pop_back(m) ==
    IF Stop(m) THEN m
    ELSE IF m.finish.curr # 0
    THEN Destroy([m EXCEPT !.finish.curr = m.finish.curr - 1],
                 m.finish.first, m.finish.curr - 1)
    ELSE _pop_back_aux(m)

\* ----------------------------------------------------------- observation
\* the number of cells of all the buffers a walk can visit
Fuel(m) == _max_nodes * (Len(m.map) + 1)

\* The values met by ++it from `it` until it == fin (forward iteration over
\* [begin(), end())); a walk that does not meet fin stops after `fuel` steps.
RECURSIVE WalkFrom(_, _, _, _)
WalkFrom(m, it, fin, fuel) ==
    IF IterEq(it, fin) \/ fuel = 0 THEN <<>>
    ELSE <<Load(m, it.first, it.curr)>>
         \o WalkFrom(m, IterInc(it, m.map), fin, fuel - 1)

\* the elements of [begin(), end()) in order
Elems(m) == WalkFrom(m, m.start, m.finish, Fuel(m))

\* The values met by ++r from the reverse iterator whose base is `it` until
\* its base is fin: std::reverse_iterator reads *r as *--tmp for a copy tmp
\* of its base and moves by -- of its base.
RECURSIVE ReverseWalkFrom(_, _, _, _)
ReverseWalkFrom(m, it, fin, fuel) ==
    IF IterEq(it, fin) \/ fuel = 0 THEN <<>>
    ELSE <<Load(m, IterDec(it, m.map).first, IterDec(it, m.map).curr)>>
         \o ReverseWalkFrom(m, IterDec(it, m.map), fin, fuel - 1)

\* the elements of [rbegin(), rend()) in order: rbegin() is
\* reverse_iterator(_finish), rend() is reverse_iterator(_start)
ReverseElems(m) == ReverseWalkFrom(m, m.finish, m.start, Fuel(m))

\* the state as a machine with no failure planned
Cur == Machine(dq, heap, 0, 0)

\* front(): *begin()
front(m) == Load(m, m.start.first, m.start.curr)

\* back(): tmp = end(); --tmp; *tmp
back(m) == LET tmp == IterDec(m.finish, m.map) IN Load(m, tmp.first, tmp.curr)

\* the buffers that are allocated
Owned(h) == {b \in DOMAIN h : h[b] # <<>>}

\* ---------------------------------------------------------- construction
\* the members before a constructor body runs, on an empty heap
Fresh(af, cf) ==
    Machine([start |-> NullIter, finish |-> NullIter, map |-> <<>>,
             map_size |-> 0],
            [b \in BufIds |-> <<>>], af, cf)

\* the construct loops of _range_construct over the list l, element k on:
\* element k goes to node _start._node + (k - 1) / _max_nodes.  m.ret is the
\* node being filled when the loop ends (curr).
RECURSIVE RangeConstructLoop(_, _, _)
RangeConstructLoop(m, l, k) ==
    LET curr == m.start.node + ((k - 1) \div _max_nodes) IN
    IF k > Len(l) THEN [m EXCEPT !.ret = m.finish.node]
    ELSE LET AfterConstruct(c) ==
                 IF Stop(c) THEN [c EXCEPT !.ret = curr]
                 ELSE RangeConstructLoop(c, l, k + 1)
         IN AfterConstruct(Construct(m, Slot(m.map, curr),
                                     (k - 1) % _max_nodes, l[k]))

\* destroys every cell of the nodes [first, last) of the map
RECURSIVE DestroyNodes(_, _, _)
DestroyNodes(m, first, lst) ==
    IF Stop(m) \/ first >= lst THEN m
    ELSE LET b == Slot(m.map, first)
             RECURSIVE Cells(_, _)
             Cells(x, o) == IF o >= _max_nodes THEN x
                            ELSE Cells(Destroy(x, b, o), o + 1)
         IN DestroyNodes(Cells(m, 0), first + 1, lst)

\* _range_construct(first, last, forward_iterator_tag) for the list l: the
\* catch block destroys the nodes filled so far and does not rethrow
_range_construct(m, l) ==
    LET AfterLoop(t) ==
            IF t.exc
            THEN DestroyNodes([t EXCEPT !.exc = FALSE], t.start.node, t.ret)
            ELSE t
        AfterMap(i) == IF Stop(i) THEN i
                       ELSE AfterLoop(RangeConstructLoop(i, l, 1))
    IN AfterMap(_initialize_map(m, Len(l)))

\* _fill_construct(value): constructs every cell of [_start, _finish); the
\* catch block destroys the nodes filled so far and rethrows
_fill_construct(m, value) ==
    IF Stop(m) THEN m
    ELSE LET n == size(m)
             AfterLoop(t) ==
                 IF t.exc
                 THEN Throw(DestroyNodes([t EXCEPT !.exc = FALSE],
                                         t.start.node, t.ret))
                 ELSE t
         IN AfterLoop(RangeConstructLoop(m, [k \in 1..n |-> value], 1))

\* deque(count, value)
deque_fill(m, count, value) == _fill_construct(_initialize_map(m, count), value)

\* deque(std::initializer_list<value_type>), deque(first, last)
deque_list(m, l) == _range_construct(m, l)

\* deque()
deque_default(m) == _initialize_map(m, 0)

\* ------------------------------------------------------ range primitives
\* *it for an iterator
Deref(m, it) == Load(m, it.first, it.curr)

\* *dst = std::move(*src) / *dst = *src: reading storage that is not
\* allocated is undefined
Assign(m, dst, src) ==
    IF Stop(m) THEN m
    ELSE IF ~ValidCell(m, src.first, src.curr) THEN [m EXCEPT !.ub = TRUE]
    ELSE Store(m, dst.first, dst.curr, Deref(m, src))

\* __destroy_range(first, last, alloc): a loop on first != last
RECURSIVE DestroyRange(_, _, _, _)
DestroyRange(m, first, lst, fuel) ==
    IF Stop(m) \/ IterEq(first, lst) THEN m
    ELSE IF fuel = 0 THEN [m EXCEPT !.ub = TRUE]
    ELSE DestroyRange(Destroy(m, first.first, first.curr),
                      IterInc(first, m.map), lst, fuel - 1)

__destroy_range(m, first, lst) == DestroyRange(m, first, lst, Fuel(m))

\* __uninit_copy_with_allocator from the list l[k..] to curr on; what has
\* been constructed is destroyed when a construction throws.  m.ret is the
\* iterator returned.
RECURSIVE UninitCopyList(_, _, _, _, _)
UninitCopyList(m, l, k, curr, start_result) ==
    IF Stop(m) THEN m
    ELSE IF k > Len(l) THEN [m EXCEPT !.ret = curr]
    ELSE LET AfterConstruct(c) ==
                 IF c.exc
                 THEN Throw(__destroy_range([c EXCEPT !.exc = FALSE],
                                            start_result, curr))
                 ELSE UninitCopyList(c, l, k + 1, IterInc(curr, c.map),
                                     start_result)
         IN AfterConstruct(Construct(m, curr.first, curr.curr, l[k]))

__uninit_copy_with_allocator(m, l, start_result) ==
    UninitCopyList(m, l, 1, start_result, start_result)

\* __uninit_move_with_allocator(first, last, start_result, alloc) over a
\* range of this deque
RECURSIVE UninitMove(_, _, _, _, _, _)
UninitMove(m, first, lst, curr, start_result, fuel) ==
    IF Stop(m) THEN m
    ELSE IF IterEq(first, lst) THEN [m EXCEPT !.ret = curr]
    ELSE IF fuel = 0 \/ ~ValidCell(m, first.first, first.curr)
    THEN [m EXCEPT !.ub = TRUE]
    ELSE LET AfterConstruct(c) ==
                 IF c.exc
                 THEN Throw(__destroy_range([c EXCEPT !.exc = FALSE],
                                            start_result, curr))
                 ELSE UninitMove(c, IterInc(first, c.map), lst,
                                 IterInc(curr, c.map), start_result, fuel - 1)
         IN AfterConstruct(Construct(m, curr.first, curr.curr,
                                     Deref(m, first)))

__uninit_move_with_allocator(m, first, lst, start_result) ==
    UninitMove(m, first, lst, start_result, start_result, Fuel(m))

\* std::move / std::copy(first, last, result) over random access iterators:
\* last - first assignments, front to back; a range with last before first
\* is not a valid range
RECURSIVE MoveForward(_, _, _, _)
MoveForward(m, first, n, result) ==
    IF Stop(m) \/ n = 0 THEN m
    ELSE MoveForward(Assign(m, result, first), IterInc(first, m.map), n - 1,
                     IterInc(result, m.map))

std_move(m, first, lst, result) ==
    IF Stop(m) THEN m
    ELSE IF IterDiff(lst, first) < 0 THEN [m EXCEPT !.ub = TRUE]
    ELSE MoveForward(m, first, IterDiff(lst, first), result)

\* std::move_backward(first, last, result): last - first assignments, back
\* to front, ending at result
RECURSIVE MoveBackward(_, _, _, _)
MoveBackward(m, lst, n, result) ==
    IF Stop(m) \/ n = 0 THEN m
    ELSE LET l1 == IterDec(lst, m.map)
             r1 == IterDec(result, m.map)
         IN MoveBackward(Assign(m, r1, l1), l1, n - 1, r1)

std_move_backward(m, first, lst, result) ==
    IF Stop(m) THEN m
    ELSE IF IterDiff(lst, first) < 0 THEN [m EXCEPT !.ub = TRUE]
    ELSE MoveBackward(m, lst, IterDiff(lst, first), result)

\* std::copy / std::move of the list l[k..] to result on
RECURSIVE CopyList(_, _, _, _)
CopyList(m, l, k, result) ==
    IF Stop(m) \/ k > Len(l) THEN m
    ELSE CopyList(Store(m, result.first, result.curr, l[k]), l, k + 1,
                  IterInc(result, m.map))

\* std::copy that starts at the second item
std_copy_skip(m, l, result) == CopyList(m, l, 2, result)

std_copy(m, l, result) == CopyList(m, l, 1, result)

\* std::fill(first, last, x): a loop on first != last
RECURSIVE Fill(_, _, _, _, _)
Fill(m, first, lst, x, fuel) ==
    IF Stop(m) \/ IterEq(first, lst) THEN m
    ELSE IF fuel = 0 THEN [m EXCEPT !.ub = TRUE]
    ELSE Fill(Store(m, first.first, first.curr, x), IterInc(first, m.map),
              lst, x, fuel - 1)

std_fill(m, first, lst, x) == Fill(m, first, lst, x, Fuel(m))

\* __uninit_fill_with_allocator(first, last, x, alloc): constructs a copy of
\* x in every cell of [first, last) and destroys what it has constructed
\* when a construction throws
RECURSIVE UninitFill(_, _, _, _, _, _)
UninitFill(m, curr, lst, x, start_result, fuel) ==
    IF Stop(m) \/ IterEq(curr, lst) THEN m
    ELSE IF fuel = 0 THEN [m EXCEPT !.ub = TRUE]
    ELSE LET AfterConstruct(c) ==
                 IF c.exc
                 THEN Throw(__destroy_range([c EXCEPT !.exc = FALSE],
                                            start_result, curr))
                 ELSE UninitFill(c, IterInc(curr, c.map), lst, x,
                                 start_result, fuel - 1)
         IN AfterConstruct(Construct(m, curr.first, curr.curr, x))

__uninit_fill_with_allocator(m, first, lst, x) ==
    UninitFill(m, first, lst, x, first, Fuel(m))

\* ------------------------------------------------- reserving new elements
\* the allocation loop of _new_elements_at_front: slot _start._node - i for
\* i = 1 .. new_nodes; m.ret is i when the loop ends
RECURSIVE NewFrontLoop(_, _, _)
NewFrontLoop(m, i, new_nodes) ==
    IF i > new_nodes THEN [m EXCEPT !.ret = i]
    ELSE LET AfterAlloc(a) ==
                 IF Stop(a) THEN [a EXCEPT !.ret = i]
                 ELSE NewFrontLoop(SetSlot(a, a.start.node - i, a.ret),
                                   i + 1, new_nodes)
         IN AfterAlloc(AllocBuf(m))

\* the allocation loop of _new_elements_at_back: slot _finish._node + i
RECURSIVE NewBackLoop(_, _, _)
NewBackLoop(m, i, new_nodes) ==
    IF i > new_nodes THEN [m EXCEPT !.ret = i]
    ELSE LET AfterAlloc(a) ==
                 IF Stop(a) THEN [a EXCEPT !.ret = i]
                 ELSE NewBackLoop(SetSlot(a, a.finish.node + i, a.ret),
                                  i + 1, new_nodes)
         IN AfterAlloc(AllocBuf(m))

\* the catch block of _new_elements_at_front: releases *(_finish._node - j)
\* for j = 1 .. i - 1
RECURSIVE NewFrontRollback(_, _, _)
NewFrontRollback(m, j, i) ==
    IF Stop(m) \/ j >= i THEN m
    ELSE NewFrontRollback(DeallocBuf(m, Slot(m.map, m.finish.node - j)),
                          j + 1, i)

\* the catch block of _new_elements_at_back: releases *(_finish._node - j)
\* for j = 1 .. i - 1
RECURSIVE NewBackRollback(_, _, _)
NewBackRollback(m, j, i) ==
    IF Stop(m) \/ j >= i THEN m
    ELSE NewBackRollback(DeallocBuf(m, Slot(m.map, m.finish.node - j)),
                         j + 1, i)

\* _new_elements_at_front(new_elms)
_new_elements_at_front(m, new_elms) ==
    IF Stop(m) THEN m
    ELSE LET new_nodes == (new_elms + _max_nodes - 1) \div _max_nodes
             AfterLoop(t) ==
                 IF t.exc
                 THEN Throw(NewFrontRollback([t EXCEPT !.exc = FALSE], 1,
                                             t.ret))
                 ELSE t
         IN AfterLoop(NewFrontLoop(_reserve_map_at_front(m, new_nodes), 1,
                                   new_nodes))

\* _new_elements_at_back(new_elms)
_new_elements_at_back(m, new_elms) ==
    IF Stop(m) THEN m
    ELSE LET new_nodes == (new_elms + _max_nodes - 1) \div _max_nodes
             AfterLoop(t) ==
                 IF t.exc
                 THEN Throw(NewBackRollback([t EXCEPT !.exc = FALSE], 1,
                                            t.ret))
                 ELSE t
         IN AfterLoop(NewBackLoop(_reserve_map_at_back(m, new_nodes), 1,
                                  new_nodes))

\* _reserve_elements_at_front(n): m.ret is the iterator returned
_reserve_elements_at_front(m, n) ==
    IF Stop(m) THEN m
    ELSE LET move_nodes == m.start.curr
             Reserved(t) ==
                 IF Stop(t) THEN t
                 ELSE [t EXCEPT !.ret = IterMinus(t.start, t.map, n)]
         IN Reserved(IF n > move_nodes
                     THEN _new_elements_at_front(m, n - move_nodes) ELSE m)

\* _reserve_elements_at_back(n): m.ret is the iterator returned
_reserve_elements_at_back(m, n) ==
    IF Stop(m) THEN m
    ELSE LET move_nodes == _max_nodes - m.finish.curr - 1
             Reserved(t) ==
                 IF Stop(t) THEN t
                 ELSE [t EXCEPT !.ret = IterPlus(t.finish, t.map, n)]
         IN Reserved(IF n > move_nodes
                     THEN _new_elements_at_back(m, n - move_nodes) ELSE m)

\* ---------------------------------------------------------------- insert
\* _insert_aux that makes room at the back and shifts nothing
_insert_aux_noshift(m, position, x) ==
    IF Stop(m) THEN m
    ELSE LET index == IterDiff(position, m.start)
             AfterPush(p) ==
                 IF Stop(p) THEN p
                 ELSE LET pos == IterPlus(p.start, p.map, index)
                      IN [Store(p, pos.first, pos.curr, x) EXCEPT !.ret = pos]
         IN AfterPush(emplace_back(m, back(m)))

\* _insert_aux(iterator position, Args &&...args): one element, not at an
\* end.  m.ret is the iterator returned.
_insert_aux(m, position, x) ==
    IF Stop(m) THEN m
    ELSE LET index == IterDiff(position, m.start) IN
         IF index < size(m) \div 2
         THEN LET AfterMove(t, pos) ==
                      IF Stop(t) THEN t
                      ELSE [Store(t, pos.first, pos.curr, x) EXCEPT !.ret = pos]
                  AfterPush(p) ==
                      LET front1 == IterPlus(p.start, p.map, 1)
                          front2 == IterPlus(front1, p.map, 1)
                          pos == IterPlus(p.start, p.map, index)
                          pos1 == IterPlus(pos, p.map, 1)
                      IN AfterMove(std_move(p, front2, pos1, front1), pos)
              IN AfterPush(emplace_front(m, front(m)))
         ELSE LET AfterMove(t, pos) ==
                      IF Stop(t) THEN t
                      ELSE [Store(t, pos.first, pos.curr, x) EXCEPT !.ret = pos]
                  AfterPush(p) ==
                      LET back1 == IterMinus(p.finish, p.map, 1)
                          back2 == IterMinus(back1, p.map, 1)
                          pos == IterPlus(p.start, p.map, index)
                      IN AfterMove(std_move_backward(p, pos, back2, back1),
                                   pos)
              IN AfterPush(emplace_back(m, back(m)))

\* emplace(const_iterator position, Args &&...args); m.ret is the iterator
\* returned
emplace(m, position, x) ==
    IF Stop(m) THEN m
    ELSE IF IterEq(position, m.start)
    THEN LET t == emplace_front(m, x) IN
         IF Stop(t) THEN t ELSE [t EXCEPT !.ret = t.start]
    ELSE IF IterEq(position, m.finish)
    THEN LET t == emplace_back(m, x) IN
         IF Stop(t) THEN t ELSE [t EXCEPT !.ret = t.finish]
    ELSE _insert_aux(m, IterPlus(m.start, m.map, IterDiff(position, m.start)),
                     x)

\* insert(const_iterator position, value_type &&x)
insert(m, position, x) == emplace(m, position, x)

\* releases the buffers of the map slots [first, last): the catch blocks of
\* the bulk inserts
RECURSIVE ReleaseSlots(_, _, _)
ReleaseSlots(m, first, lst) ==
    IF Stop(m) \/ first >= lst THEN m
    ELSE ReleaseSlots(DeallocBuf(m, Slot(m.map, first)), first + 1, lst)

\* try { body } catch (...) { release [from, to); throw; } where t is the
\* machine the body ended in
CatchRelease(t, from, to) ==
    IF t.exc THEN Throw(ReleaseSlots([t EXCEPT !.exc = FALSE], from, to))
    ELSE t

\* _insert_aux(iterator pos, size_type n, const value_type &x)
_insert_aux_n(m, pos0, n, x) ==
    IF Stop(m) THEN m
    ELSE
    LET elms_before == IterDiff(pos0, m.start)
        length == size(m)
        elms_after == length - elms_before
        AtFront(r) ==
            IF Stop(r) THEN r
            ELSE
            LET new_start == r.ret
                old_start == r.start
                pos == IterPlus(r.start, r.map, elms_before)
                nstart == IterPlus(r.start, r.map, n)
                SetStart(a) == IF Stop(a) THEN a
                               ELSE [a EXCEPT !.start = new_start]
                Caught(body) ==
                    CatchRelease(body, new_start.node, body.start.node)
                Shifted(c) == std_fill(c, IterMinus(pos, c.map, n), pos, x)
                Guarded(a, f) ==
                    IF ~Stop(a) /\ f.exc
                    THEN Throw(__destroy_range([f EXCEPT !.exc = FALSE],
                                               new_start, a.ret))
                    ELSE f
                Moved(a) ==
                    std_fill(SetStart(Guarded(a,
                                 __uninit_fill_with_allocator(a, a.ret,
                                                              a.start, x))),
                             old_start, pos, x)
            IN IF elms_before >= n
               THEN Caught(Shifted(std_move(
                        SetStart(__uninit_move_with_allocator(
                                     r, r.start, nstart, new_start)),
                        nstart, pos, old_start)))
               ELSE Caught(Moved(__uninit_move_with_allocator(
                                     r, r.start, pos, new_start)))
        AtBack(r) ==
            IF Stop(r) THEN r
            ELSE
            LET new_finish == r.ret
                old_finish == r.finish
                pos == IterMinus(r.finish, r.map, elms_after)
                nfinish == IterMinus(r.finish, r.map, n)
                SetFinish(a) == IF Stop(a) THEN a
                                ELSE [a EXCEPT !.finish = new_finish]
                Caught(body) ==
                    CatchRelease(body, body.finish.node + 1,
                                 new_finish.node + 1)
                Shifted(c) == std_fill(c, pos, IterPlus(pos, c.map, n), x)
                Guarded(a, f) ==
                    IF ~Stop(a) /\ f.exc
                    THEN Throw(__destroy_range(
                                   [f EXCEPT !.exc = FALSE],
                                   f.finish, IterPlus(pos, f.map, n)))
                    ELSE f
                Filled(a) ==
                    std_fill(SetFinish(Guarded(a,
                                 __uninit_move_with_allocator(
                                     a, pos, a.finish,
                                     IterPlus(pos, a.map, n)))),
                             pos, old_finish, x)
            IN IF elms_after > n
               THEN Caught(Shifted(std_move(
                        SetFinish(__uninit_move_with_allocator(
                                      r, nfinish, r.finish, r.finish)),
                        pos, nfinish, old_finish)))
               ELSE Caught(Filled(__uninit_fill_with_allocator(
                                      r, r.finish, IterPlus(pos, r.map, n),
                                      x)))
    IN
    IF elms_before < length \div 2
    THEN AtFront(_reserve_elements_at_front(m, n))
    ELSE AtBack(_reserve_elements_at_back(m, n))

\* _fill_insert_aux(iterator pos, size_type n, const value_type &x): the
\* second test repeats the first, so only an insertion at _start is handled
\* here
_fill_insert_aux(m, pos, n, x) ==
    IF Stop(m) THEN m
    ELSE IF IterEq(pos, m.start)
    THEN LET Caught(b, new_start) ==
                 CatchRelease(b, new_start.node, b.start.node)
             Filled(f, new_start) ==
                 Caught(IF Stop(f) THEN f ELSE [f EXCEPT !.start = new_start],
                        new_start)
             AtFront(r) ==
                 IF Stop(r) THEN r
                 ELSE Filled(__uninit_fill_with_allocator(r, r.ret, r.start,
                                                          x),
                             r.ret)
         IN AtFront(_reserve_elements_at_front(m, n))
    ELSE _insert_aux_n(m, pos, n, x)

\* insert(const_iterator position, size_type count, const value_type &x);
\* m.ret is the iterator returned
insert_n(m, position, count, x) ==
    IF Stop(m) THEN m
    ELSE LET offset == IterDiff(position, m.start)
             Inserted(t) ==
                 IF Stop(t) THEN t
                 ELSE [t EXCEPT !.ret = IterPlus(t.start, t.map, offset)]
         IN Inserted(_fill_insert_aux(m, IterPlus(m.start, m.map, offset),
                                      count, x))

\* _insert_aux(iterator pos, _ForwardIter first, _ForwardIter last,
\* size_type n) for the list l.  The catch block of the back half releases
\* nothing and does not rethrow.
_insert_aux_range(m, pos0, l) ==
    IF Stop(m) THEN m
    ELSE
    LET n == Len(l)
        elms_before == IterDiff(pos0, m.start)
        length == size(m)
        elms_after == length - elms_before
        AtFront(r) ==
            IF Stop(r) THEN r
            ELSE
            LET new_start == r.ret
                old_start == r.start
                pos == IterPlus(r.start, r.map, elms_before)
                nstart == IterPlus(r.start, r.map, n)
                mid == n - elms_before
                start_to_pos == IterDiff(pos, r.start)
                SetStart(a) == IF Stop(a) THEN a
                               ELSE [a EXCEPT !.start = new_start]
                Caught(body) ==
                    CatchRelease(body, new_start.node, body.start.node)
                Shifted(c) == std_copy(c, l, IterMinus(pos, c.map, n))
                Moved(a) ==
                    std_copy(SetStart(__uninit_copy_with_allocator(
                                 a, SubSeq(l, 1, mid),
                                 IterPlus(new_start, a.map, start_to_pos))),
                             SubSeq(l, mid + 1, n), old_start)
            IN IF elms_before >= n
               THEN Caught(Shifted(std_move(
                        SetStart(__uninit_move_with_allocator(
                                     r, r.start, nstart, new_start)),
                        nstart, pos, old_start)))
               ELSE Caught(Moved(__uninit_move_with_allocator(
                                     r, r.start, pos, new_start)))
        AtBack(r) ==
            IF Stop(r) THEN r
            ELSE
            LET new_finish == r.ret
                old_finish == r.finish
                pos == IterMinus(r.finish, r.map, elms_after)
                nfinish == IterMinus(r.finish, r.map, n)
                mid == elms_after
                SetFinish(a) == IF Stop(a) THEN a
                                ELSE [a EXCEPT !.finish = new_finish]
                Caught(body) ==
                    IF body.exc THEN [body EXCEPT !.exc = FALSE] ELSE body
                Copied(a) ==
                    std_copy(SetFinish(__uninit_move_with_allocator(
                                 a, pos, a.finish, a.ret)),
                             SubSeq(l, 1, mid), pos)
            IN IF elms_after > n
               THEN Caught(std_copy(
                        std_move_backward(
                            SetFinish(__uninit_move_with_allocator(
                                          r, nfinish, r.finish, r.finish)),
                            pos, nfinish, old_finish),
                        l, pos))
               ELSE Caught(Copied(__uninit_copy_with_allocator(
                                      r, SubSeq(l, mid + 1, n), r.finish)))
    IN
    IF elms_before < length \div 2
    THEN AtFront(_reserve_elements_at_front(m, n))
    ELSE AtBack(_reserve_elements_at_back(m, n))

\* _range_insert_aux(iterator pos, first, last, forward_iterator_tag) for
\* the list l.  The loop of the catch block of the insertion at _finish has
\* the condition new_finish._node + 1, which never becomes false: it runs
\* off the map.
_range_insert_aux(m, pos, l) ==
    IF Stop(m) THEN m
    ELSE LET nodes_to_add == Len(l) IN
    IF IterEq(pos, m.start)
    THEN LET Caught(b, new_start) ==
                 CatchRelease(b, new_start.node, b.start.node)
             Copied(f, new_start) ==
                 Caught(IF Stop(f) THEN f ELSE [f EXCEPT !.start = new_start],
                        new_start)
             AtFront(r) ==
                 IF Stop(r) THEN r
                 ELSE Copied(__uninit_copy_with_allocator(r, l, r.ret), r.ret)
         IN AtFront(_reserve_elements_at_front(m, nodes_to_add))
    ELSE IF IterEq(pos, m.finish)
    THEN LET Caught(b) ==
                 IF b.exc THEN [b EXCEPT !.exc = FALSE, !.ub = TRUE] ELSE b
             Copied(f, new_finish) ==
                 Caught(IF Stop(f) THEN f
                        ELSE [f EXCEPT !.finish = new_finish])
             AtBack(r) ==
                 IF Stop(r) THEN r
                 ELSE Copied(__uninit_copy_with_allocator(r, l, r.finish),
                             r.ret)
         IN AtBack(_reserve_elements_at_back(m, nodes_to_add))
    ELSE _insert_aux_range(m, pos, l)

\* insert(const_iterator position, std::initializer_list<value_type> l);
\* m.ret is the iterator returned
insert_list(m, position, l) ==
    IF Stop(m) THEN m
    ELSE LET offset == IterDiff(position, m.start)
             Inserted(t) ==
                 IF Stop(t) THEN t
                 ELSE [t EXCEPT !.ret = IterPlus(t.start, t.map, offset)]
         IN Inserted(_range_insert_aux(m, IterPlus(m.start, m.map, offset),
                                       l))

\* ----------------------------------------------------------------- erase
\* destroys the cells [from, to) of buffer b, a loop on curr != to
RECURSIVE DestroyCells(_, _, _, _)
DestroyCells(m, b, from, to) ==
    IF Stop(m) \/ from = to THEN m
    ELSE IF from > to THEN [m EXCEPT !.ub = TRUE]
    ELSE DestroyCells(Destroy(m, b, from), b, from + 1, to)

\* _destroy_data(iterator first, iterator last): within one node the loop
\* ends at last._curr + 1
_destroy_data(m, first, lst) ==
    IF Stop(m) THEN m
    ELSE LET Ends(full) ==
                 IF first.node # lst.node
                 THEN DestroyCells(DestroyCells(full, first.first, first.curr,
                                                _max_nodes),
                                   lst.first, 0, lst.curr)
                 ELSE DestroyCells(full, first.first, first.curr, lst.curr + 1)
         IN Ends(DestroyNodes(m, first.node + 1, lst.node))

\* _erase_from_begin(iterator end)
_erase_from_begin(m, end) ==
    IF Stop(m) THEN m
    ELSE LET Released(t) == IF Stop(t) THEN t ELSE [t EXCEPT !.start = end]
         IN Released(_deallocate_nodes(_destroy_data(m, m.start, end),
                                       m.start.node, end.node))

\* _erase_to_end(iterator start)
_erase_to_end(m, start) ==
    IF Stop(m) THEN m
    ELSE LET Released(t) ==
                 IF Stop(t) THEN t ELSE [t EXCEPT !.finish = start]
         IN Released(_deallocate_nodes(_destroy_data(m, start, m.finish),
                                       start.node + 1, m.finish.node + 1))

\* clear() that keeps every buffer
clear_keep(m) ==
    IF Stop(m) THEN m
    ELSE LET Destroyed(t) ==
                 IF Stop(t) THEN t ELSE [t EXCEPT !.finish = t.start]
         IN Destroyed(_destroy_data(m, m.start, m.finish))

\* clear()
clear(m) == _erase_to_end(m, m.start)

\* _erase(iterator pos); m.ret is the iterator returned
_erase(m, pos) ==
    IF Stop(m) THEN m
    ELSE LET next == IterInc(pos, m.map)
             index == IterDiff(pos, m.start)
             Erased(t) ==
                 IF Stop(t) THEN t
                 ELSE [t EXCEPT !.ret = IterPlus(t.start, t.map, index)]
         IN Erased(IF index < size(m) \div 2
                   THEN pop_front(IF ~IterEq(pos, m.start)
                                  THEN std_move_backward(m, m.start, pos, next)
                                  ELSE m)
                   ELSE pop_back(IF ~IterEq(next, m.finish)
                                 THEN std_move(m, next, m.finish, pos)
                                 ELSE m))

\* erase(const_iterator position)
erase(m, position) ==
    IF Stop(m) THEN m
    ELSE _erase(m, IterPlus(m.start, m.map, IterDiff(position, m.start)))

\* _erase_range(iterator first, iterator last); m.ret is the iterator
\* returned
_erase_range(m, first, lst) ==
    IF Stop(m) THEN m
    ELSE IF IterEq(first, lst) THEN [m EXCEPT !.ret = first]
    ELSE IF IterEq(first, m.start) /\ IterEq(lst, m.finish)
    THEN LET Cleared(t) ==
                 IF Stop(t) THEN t ELSE [t EXCEPT !.ret = t.finish]
         IN Cleared(clear(m))
    ELSE LET n == IterDiff(lst, first)
             elms_before == IterDiff(first, m.start)
             FromBegin(a) == _erase_from_begin(a, IterPlus(a.start, a.map, n))
             ToEnd(a) == _erase_to_end(a, IterMinus(a.finish, a.map, n))
             Erased(t) ==
                 IF Stop(t) THEN t
                 ELSE [t EXCEPT !.ret = IterPlus(t.start, t.map, elms_before)]
         IN Erased(IF elms_before <= (size(m) - n) \div 2
                   THEN FromBegin(IF ~IterEq(first, m.start)
                                  THEN std_move_backward(m, m.start, first,
                                                         lst)
                                  ELSE m)
                   ELSE ToEnd(IF ~IterEq(lst, m.finish)
                              THEN std_move(m, lst, m.finish, first)
                              ELSE m))

\* erase(const_iterator first, const_iterator last)
erase_range(m, first, lst) ==
    IF Stop(m) THEN m
    ELSE _erase_range(m,
                      IterPlus(m.start, m.map, IterDiff(first, m.start)),
                      IterPlus(m.start, m.map, IterDiff(lst, m.start)))

\* ------------------------------------------------------- the whole deque
\* the members of a deque that was moved from (deque(deque&&) resets its
\* argument to them)
NullDeque ==
    [start |-> NullIter, finish |-> NullIter, map |-> <<>>, map_size |-> 0]

\* the second deque before it is constructed
NoDeque == [live |-> FALSE, dq |-> NullDeque, abs |-> <<>>, swapped |-> FALSE]

\* deque(deque &&other): the members that `this` and `other` are left with
deque_move(o) == [this |-> o, other |-> NullDeque]

\* deque(const deque &other) on the members m of the new deque, for the
\* machine o of `other`: _range_construct over [other.cbegin(), other.cend())
\* shares every member with it (a shallow copy)
deque_copy_shallow(m, o) ==
    [m EXCEPT !.start = o.start, !.finish = o.finish, !.map = o.map,
              !.map_size = o.map_size]

deque_copy(m, o) == _range_construct(m, Elems(o))

\* swap(deque &other): the members that `this` and `other` are left with
\* keeps the two cursors (exchanges the map only)
swap_map(d, o) ==
    [this |-> [d EXCEPT !.map = o.map, !.map_size = o.map_size],
     other |-> [o EXCEPT !.map = d.map, !.map_size = d.map_size]]

swap(d, o) == [this |-> o, other |-> d]

\* _deallocate_map(_map, _map_size): the array is gone
_deallocate_map(m) ==
    IF Stop(m) THEN m ELSE [m EXCEPT !.map = <<>>, !.map_size = 0]

\* ~deque()
deque_destroy(m) ==
    IF Stop(m) THEN m
    ELSE LET Destroyed(t) ==
                 IF Stop(t) \/ t.map = <<>> THEN t
                 ELSE _deallocate_map(
                          _deallocate_nodes(t, t.start.node,
                                            t.finish.node + 1))
         IN Destroyed(_destroy_data(m, m.start, m.finish))

\* ----------------------------------------------------------------- resize
\* value_type()
DefaultValue == CHOOSE v \in Values : \A w \in Values : v <= w

\* resize(count, value) that erases from one element too far
resize_short(m, count, value) ==
    IF Stop(m) THEN m
    ELSE IF count > size(m)
    THEN _insert_aux_n(m, m.finish, count - size(m), value)
    ELSE IF count < size(m)
    THEN _erase_to_end(m, IterPlus(m.start, m.map, count + 1))
    ELSE m

\* resize(size_type count, const value_type &value)
resize(m, count, value) ==
    IF Stop(m) THEN m
    ELSE IF count > size(m)
    THEN _insert_aux_n(m, m.finish, count - size(m), value)
    ELSE IF count < size(m)
    THEN _erase_to_end(m, IterPlus(m.start, m.map, count))
    ELSE m

\* resize(size_type count)
resize_default(m, count) == resize(m, count, DefaultValue)

\* --------------------------------------------------------- element access
\* deque_iterator::operator[](n): *(*this + n); what it returns is a
\* reference, here the iterator at the cell referred to
iter_subscript(it, map, n) == IterPlus(it, map, n)

\* deque::operator[](pos): _start[difference_type(pos)]
subscript(m, pos) == iter_subscript(m.start, m.map, pos)

\* deque::at(pos) without the test of pos
at_unchecked(m, pos) ==
    IF Stop(m) THEN m ELSE [m EXCEPT !.ret = subscript(m, pos)]

\* deque::at(pos): throws std::runtime_error when pos >= size(); m.ret is
\* the reference returned
at(m, pos) ==
    IF Stop(m) THEN m
    ELSE IF pos >= size(m) THEN Throw(m)
    ELSE [m EXCEPT !.ret = subscript(m, pos)]

\* n times ++it
RECURSIVE Advance(_, _, _)
Advance(it, map, n) ==
    IF n <= 0 THEN it ELSE Advance(IterInc(it, map), map, n - 1)

\* -------------------------------------------------------------- the queue
\* queue::push(const value_type &x): _cont.push_back(x)
queue_push(m, x) == push_back(m, x)

\* queue::pop() removes at the back
queue_pop_back(m) == pop_back(m)

\* queue::pop(): _cont.pop_front()
queue_pop(m) == pop_front(m)

\* queue::front(): _cont.front()
queue_front(m) == front(m)

\* ------------------------------------------------------------- the ghost
\* every list over Values of length at most n
Lists(n) == UNION {[1..k -> Values] : k \in 0..n}

\* the lists given to the bulk insertions: no two neighbours equal, so that
\* a list put in the wrong order differs from the list
InputLists ==
    {l \in Lists(MaxBulk) : \A k \in 1..(Len(l) - 1) : l[k] # l[k + 1]}

\* whether the planned failure happened in the call from m0 to m, and which
Fired(m0, m) == (m0.af > 0 /\ m.af = 0) \/ (m0.cf > 0 /\ m.cf = 0)

Cause(m0, m) ==
    IF m0.af > 0 /\ m.af = 0 THEN "alloc"
    ELSE IF m0.cf > 0 /\ m.cf = 0 THEN "construct"
    ELSE ""

\* what the last call was: its name, the case of its arguments, whether it
\* returned an iterator and how far that is from the position it was given,
\* whether a planned failure happened in it and whether it ended by
\* throwing, whether it assigned to or destroyed storage that holds no
\* object, and how many calls there have been since the second deque was
\* constructed
Call(op, br, i, m0, m) ==
    [op |-> op, br |-> br, n |-> IF other.live THEN last.n + 1 ELSE 0,
     returned |-> ~Stop(m) /\ i >= 0,
     ret |-> IF ~Stop(m) /\ i >= 0 THEN IterDiff(m.ret, m.start) - i ELSE 0,
     failed |-> Fired(m0, m), cause |-> Cause(m0, m), thrown |-> m.exc,
     wild |-> m.wild]

\* the case of an insertion of n elements before index i of len elements
InsertCase(i, n, len) ==
    IF i = 0 THEN "begin"
    ELSE IF i = len THEN "end"
    ELSE IF i < len \div 2
    THEN IF i >= n THEN "front_ge" ELSE "front_lt"
    ELSE IF len - i > n THEN "back_gt" ELSE "back_le"

\* the case of erase(begin() + a, begin() + b) on len elements
EraseCase(a, b, len) ==
    IF a = b THEN "none"
    ELSE IF a = 0 /\ b = len THEN "all"
    ELSE IF a <= (len - (b - a)) \div 2 THEN "prefix" ELSE "suffix"

\* the case of a push at the end whose cursor is it
PushCase(atlast) == IF atlast THEN "slow" ELSE "fast"

\* the list s with the list l inserted before index i (from 0)
Ins(s, i, l) == SubSeq(s, 1, i) \o l \o SubSeq(s, i + 1, Len(s))

\* the list s without its items of index a .. b - 1 (from 0)
Del(s, a, b) == SubSeq(s, 1, a) \o SubSeq(s, b + 1, Len(s))

\* Buffer ids are names of storage, not addresses the program can look at:
\* a state is kept with its allocated buffers renamed in the order of the
\* slots _start._node .. _finish._node, then of their first slot in the
\* map (buffers no slot refers to come last).  Once a second deque lives in
\* the heap the ids are kept as they are.
\* (An order never has more items than there are slots or ids: the test of
\* its length has it computed at each step.)
RECURSIVE SlotOrder(_, _, _, _)
SlotOrder(map, h, k, acc) ==
    IF k > Len(map) \/ Len(acc) > Len(map) THEN acc
    ELSE SlotOrder(map, h, k + 1,
                   IF Allocated(h, map[k])
                      /\ \A j \in 1..Len(acc) : acc[j] # map[k]
                   THEN Append(acc, map[k]) ELSE acc)

RECURSIVE IdOrder(_, _, _)
IdOrder(h, b, acc) ==
    IF b \notin DOMAIN h \/ Len(acc) > b THEN acc
    ELSE IdOrder(h, b + 1,
                 IF h[b] # <<>> /\ \A j \in 1..Len(acc) : acc[j] # b
                 THEN Append(acc, b) ELSE acc)

Canon(m) ==
    LET live == IF m.start.node \in 1..Len(m.map)
                   /\ m.finish.node \in 1..Len(m.map)
                THEN SubSeq(m.map, m.start.node, m.finish.node) ELSE <<>>
        ord == IdOrder(m.heap, 1, SlotOrder(live \o m.map, m.heap, 1, <<>>))
        ren == [x \in (DOMAIN m.heap) \cup {Null, Indet} |->
                   IF \E j \in 1..Len(ord) : ord[j] = x
                   THEN CHOOSE j \in 1..Len(ord) : ord[j] = x
                   ELSE IF x = Null THEN Null ELSE Indet]
    IN [m EXCEPT
          !.heap = [i \in DOMAIN m.heap |->
                       IF i <= Len(ord) THEN m.heap[ord[i]] ELSE <<>>],
          !.map = [k \in 1..Len(m.map) |-> ren[m.map[k]]],
          !.start.first = ren[m.start.first],
          !.finish.first = ren[m.finish.first]]

\* the state after a call that ended in m; a call that needs more buffer
\* ids than the model has is not taken, and after undefined behaviour
\* nothing more is modelled
Record(m, c, a) ==
    /\ ~m.oom
    /\ ub' = m.ub
    /\ IF m.ub THEN UNCHANGED <<dq, heap>>
       ELSE LET c0 == IF other.live THEN m ELSE Canon(m)
            IN dq' = DequeOf(c0) /\ heap' = c0.heap
    /\ last' = c
    /\ abs' = a

\* the same for a call that is given nothing but dq and from which the
\* caller reads nothing
Commit(m, c, a) == Record(m, c, a) /\ UNCHANGED <<other, seen>>

\* the planned failures of a call: none, or the k-th allocation, or the
\* k-th element construction
NoPlan == {<<0, 0>>}

AllocPlans == {<<k, 0>> : k \in 1..MaxBulk}

ConstructPlans == {<<0, k>> : k \in 1..(MaxBulk + 1)}

Plans == AllocPlans \cup ConstructPlans

\* a push allocates at most a map and a buffer and constructs one element
PushPlans == {<<1, 0>>, <<2, 0>>, <<0, 1>>}

\* one value, for the calls whose effect does not depend on it
OneValue == {CHOOSE v \in Values : TRUE}

Start(p) == Machine(dq, heap, p[1], p[2])

\* a call is taken with a plan only when the planned failure happens in it
Taken(p, m0, m) == p \in NoPlan \/ Fired(m0, m)

\* an initial state: the deque a constructor call left
Constructed(m0, m, op, l) ==
    /\ ~Stop(m)
    /\ LET c0 == Canon(m) IN dq = DequeOf(c0) /\ heap = c0.heap
    /\ abs = l
    /\ ub = FALSE
    /\ other = NoDeque
    /\ last = Call(op, "", -1, m0, m)
    /\ seen = <<>>

InitDefault ==
    Constructed(Fresh(0, 0), deque_default(Fresh(0, 0)), "deque", <<>>)

InitList == \E l \in Lists(MaxLen) :
    Constructed(Fresh(0, 0), deque_list(Fresh(0, 0), l), "deque_list", l)

InitFill == \E n \in 0..MaxLen : \E v \in Values :
    Constructed(Fresh(0, 0), deque_fill(Fresh(0, 0), n, v), "deque_fill",
                [k \in 1..n |-> v])

\* deque(n, v) for one value v
InitFillOne == \E n \in 0..MaxLen : \E v \in OneValue :
    Constructed(Fresh(0, 0), deque_fill(Fresh(0, 0), n, v), "deque_fill",
                [k \in 1..n |-> v])

\* a deque left by a constructor call in which the planned failure happened
\* and which returned all the same
InitListFailed == \E l \in Lists(MaxLen) : \E p \in Plans :
    LET m0 == Fresh(p[1], p[2])
        InitListFailedEnd(m) ==
            Fired(m0, m) /\ Constructed(m0, m, "deque_list", l)
    IN InitListFailedEnd(deque_list(m0, l))

\* a deque left by any constructor
InitAny == InitDefault \/ InitList \/ InitFill

\* ---------------------------------------------------------------- actions
PushFront(P, V) == \E v \in V : \E p \in P :
    LET m0 == Start(p)
        PushFrontEnd(m) ==
            /\ ~ub /\ size(m0) < MaxLen /\ Taken(p, m0, m)
            /\ Commit(m, Call("push_front", PushCase(m0.start.curr = 0), -1,
                              m0, m),
                      IF m.exc THEN abs ELSE <<v>> \o abs)
    IN PushFrontEnd(push_front(m0, v))

PushBack(P, V) == \E v \in V : \E p \in P :
    LET m0 == Start(p)
        PushBackEnd(m) ==
            /\ ~ub /\ size(m0) < MaxLen /\ Taken(p, m0, m)
            /\ Commit(m, Call("push_back",
                              PushCase(m0.finish.curr = _max_nodes - 1), -1,
                              m0, m),
                      IF m.exc THEN abs ELSE abs \o <<v>>)
    IN PushBackEnd(push_back(m0, v))

EmplaceFront(P, V) == \E v \in V : \E p \in P :
    LET m0 == Start(p)
        EmplaceFrontEnd(m) ==
            /\ ~ub /\ size(m0) < MaxLen /\ Taken(p, m0, m)
            /\ Commit(m, Call("emplace_front", PushCase(m0.start.curr = 0), -1,
                              m0, m),
                      IF m.exc THEN abs ELSE <<v>> \o abs)
    IN EmplaceFrontEnd(emplace_front(m0, v))

EmplaceBack(P, V) == \E v \in V : \E p \in P :
    LET m0 == Start(p)
        EmplaceBackEnd(m) ==
            /\ ~ub /\ size(m0) < MaxLen /\ Taken(p, m0, m)
            /\ Commit(m, Call("emplace_back",
                              PushCase(m0.finish.curr = _max_nodes - 1), -1,
                              m0, m),
                      IF m.exc THEN abs ELSE abs \o <<v>>)
    IN EmplaceBackEnd(emplace_back(m0, v))

PopFront ==
    LET m0 == Cur
        PopFrontEnd(m) ==
            /\ ~ub /\ ~empty(m0)
            /\ Commit(m, Call("pop_front", "", -1, m0, m), Tail(abs))
    IN PopFrontEnd(pop_front(m0))

PopBack ==
    LET m0 == Cur
        PopBackEnd(m) ==
            /\ ~ub /\ ~empty(m0)
            /\ Commit(m, Call("pop_back", "", -1, m0, m),
                      SubSeq(abs, 1, Len(abs) - 1))
    IN PopBackEnd(pop_back(m0))

\* insert(begin() + i, v) with an rvalue v
Insert(P) == \E v \in Values : \E p \in P :
    LET m0 == Start(p) IN
    \E i \in 0..size(m0) :
        LET InsertEnd(m) ==
                /\ ~ub /\ size(m0) < MaxLen /\ Taken(p, m0, m)
                /\ Commit(m, Call("insert", InsertCase(i, 1, size(m0)), i, m0,
                                  m),
                          IF m.exc THEN Elems(m0) ELSE Ins(Elems(m0), i, <<v>>))
        IN InsertEnd(insert(m0, IterPlus(m0.start, m0.map, i), v))

\* emplace(begin() + i, v)
Emplace(P) == \E v \in Values : \E p \in P :
    LET m0 == Start(p) IN
    \E i \in 0..size(m0) :
        LET EmplaceEnd(m) ==
                /\ ~ub /\ size(m0) < MaxLen /\ Taken(p, m0, m)
                /\ Commit(m, Call("emplace", InsertCase(i, 1, size(m0)), i, m0,
                                  m),
                          IF m.exc THEN Elems(m0) ELSE Ins(Elems(m0), i, <<v>>))
        IN EmplaceEnd(emplace(m0, IterPlus(m0.start, m0.map, i), v))

\* insert(begin() + i, n, v)
InsertCount(P) == \E v \in Values : \E n \in 0..MaxBulk : \E p \in P :
    LET m0 == Start(p) IN
    \E i \in 0..size(m0) :
        LET InsertCountEnd(m) ==
                /\ ~ub /\ size(m0) < MaxLen /\ size(m0) + n <= MaxLen + 1
                /\ Taken(p, m0, m)
                /\ Commit(m, Call("insert_n", InsertCase(i, n, size(m0)), i,
                                  m0, m),
                          IF m.exc THEN Elems(m0)
                          ELSE Ins(Elems(m0), i, [k \in 1..n |-> v]))
        IN InsertCountEnd(insert_n(m0, IterPlus(m0.start, m0.map, i), n, v))

\* insert(begin() + i, l)
InsertList(P) == \E l \in InputLists : \E p \in P :
    LET m0 == Start(p) IN
    \E i \in 0..size(m0) :
        LET InsertListEnd(m) ==
                /\ ~ub /\ size(m0) < MaxLen /\ size(m0) + Len(l) <= MaxLen + 1
                /\ Taken(p, m0, m)
                /\ Commit(m, Call("insert_list",
                                  InsertCase(i, Len(l), size(m0)), i, m0, m),
                          IF m.exc THEN Elems(m0) ELSE Ins(Elems(m0), i, l))
        IN InsertListEnd(insert_list(m0, IterPlus(m0.start, m0.map, i), l))

\* erase(begin() + i) of an element
Erase ==
    LET m0 == Cur IN
    \E i \in 0..(size(m0) - 1) :
        LET EraseEnd(m) ==
                /\ ~ub
                /\ Commit(m, Call("erase", EraseCase(i, i + 1, size(m0) + 1),
                                  i, m0, m),
                          Del(Elems(m0), i, i + 1))
        IN EraseEnd(erase(m0, IterPlus(m0.start, m0.map, i)))

\* erase(begin() + a, begin() + b)
EraseRange ==
    LET m0 == Cur IN
    \E a \in 0..size(m0) : \E b \in a..size(m0) :
        LET EraseRangeEnd(m) ==
                /\ ~ub
                /\ Commit(m, Call("erase_range", EraseCase(a, b, size(m0)),
                                  a, m0, m),
                          Del(Elems(m0), a, b))
        IN EraseRangeEnd(erase_range(m0, IterPlus(m0.start, m0.map, a),
                                     IterPlus(m0.start, m0.map, b)))

\* erase(insert(begin() + i, v))
InsertErase == \E v \in Values :
    LET m0 == Cur IN
    \E i \in 0..size(m0) :
        LET Erased(m1) == erase(m1, m1.ret)
            InsertEraseEnd(m) ==
                /\ ~ub /\ size(m0) < MaxLen
                /\ Commit(m, Call("erase_insert", InsertCase(i, 1, size(m0)),
                                  i, m0, m),
                          Elems(m0))
        IN InsertEraseEnd(Erased(insert(m0, IterPlus(m0.start, m0.map, i), v)))

\* b(std::move(a)): dq is a, the second deque is b
MoveConstruct ==
    /\ ~ub /\ ~other.live
    /\ other' = [live |-> TRUE, dq |-> deque_move(dq).this, abs |-> abs,
                 swapped |-> FALSE]
    /\ dq' = deque_move(dq).other
    /\ abs' = <<>>
    /\ last' = Call("deque_move", "", -1, Cur, Cur)
    /\ UNCHANGED <<heap, ub, seen>>

\* b(a): dq is a, the second deque is b
CopyConstruct ==
    LET m0 == Machine(NullDeque, heap, 0, 0)
        CopyConstructEnd(m) ==
            /\ ~ub /\ ~other.live /\ ~m.oom
            /\ ub' = m.ub
            /\ IF m.ub THEN UNCHANGED <<heap, other>>
               ELSE /\ heap' = m.heap
                    /\ other' = [live |-> TRUE, dq |-> DequeOf(m), abs |-> abs,
                                 swapped |-> FALSE]
            /\ last' = Call("deque_copy", "", -1, m0, m)
            /\ UNCHANGED <<dq, abs, seen>>
    IN CopyConstructEnd(deque_copy(m0, Cur))

\* a.swap(b)
Swap ==
    /\ ~ub /\ other.live
    /\ dq' = swap(dq, other.dq).this
    /\ other' = [other EXCEPT !.dq = swap(dq, other.dq).other, !.abs = abs,
                              !.swapped = ~other.swapped]
    /\ abs' = other.abs
    /\ last' = Call("swap", "", -1, Cur, Cur)
    /\ UNCHANGED <<heap, ub, seen>>

Clear ==
    LET m0 == Cur
        ClearEnd(m) ==
            /\ ~ub
            /\ Commit(m, Call("clear", "", -1, m0, m), <<>>)
    IN ClearEnd(clear(m0))

\* the destructor of dq; nothing is called on a destroyed deque
Destruct ==
    LET m0 == Cur
        DestructEnd(m) ==
            /\ ~ub
            /\ Commit(m, Call("~deque", "", -1, m0, m), <<>>)
    IN DestructEnd(deque_destroy(m0))

Gone == last.op = "~deque"

\* push_back(v) on a deque of fewer than MaxGrow elements; the caller keeps
\* the sizes the map array has had since the deque was constructed, one for
\* each call that changed _map_size
PushBackGrow == \E v \in OneValue :
    LET m0 == Cur
        PushBackGrowEnd(m) ==
            /\ ~ub /\ size(m0) < MaxGrow
            /\ Record(m, Call("push_back",
                              PushCase(m0.finish.curr = _max_nodes - 1), -1,
                              m0, m),
                      abs \o <<v>>)
            /\ seen' = IF m.map_size # m0.map_size
                       THEN Append(seen, m.map_size) ELSE seen
            /\ UNCHANGED other
    IN PushBackGrowEnd(push_back(m0, v))

\* push_front(v) on a deque of fewer than MaxGrow elements, with the same
\* record of the sizes of the map array
PushFrontGrow == \E v \in OneValue :
    LET m0 == Cur
        PushFrontGrowEnd(m) ==
            /\ ~ub /\ size(m0) < MaxGrow
            /\ Record(m, Call("push_front", PushCase(m0.start.curr = 0), -1,
                              m0, m),
                      <<v>> \o abs)
            /\ seen' = IF m.map_size # m0.map_size
                       THEN Append(seen, m.map_size) ELSE seen
            /\ UNCHANGED other
    IN PushFrontGrowEnd(push_front(m0, v))

\* the case of resize(count) on len elements
ResizeCase(count, len) ==
    IF count > len THEN "grow" ELSE IF count < len THEN "shrink" ELSE "same"

\* resize(count, v)
Resize == \E v \in Values : \E count \in 0..MaxLen :
    LET m0 == Cur
        ResizeEnd(m) ==
            /\ ~ub
            /\ Commit(m, Call("resize", ResizeCase(count, size(m0)), -1, m0, m),
                      IF count > Len(abs)
                      THEN abs \o [k \in 1..(count - Len(abs)) |-> v]
                      ELSE SubSeq(abs, 1, count))
    IN ResizeEnd(resize(m0, count, v))

\* resize(count)
ResizeDefault == \E count \in 0..MaxLen :
    LET m0 == Cur
        ResizeDefaultEnd(m) ==
            /\ ~ub
            /\ Commit(m, Call("resize", ResizeCase(count, size(m0)), -1, m0, m),
                      IF count > Len(abs)
                      THEN abs \o [k \in 1..(count - Len(abs)) |-> DefaultValue]
                      ELSE SubSeq(abs, 1, count))
    IN ResizeDefaultEnd(resize_default(m0, count))

\* for (it = begin(); it != end(); ++it) read *it: the caller keeps the
\* values in the order it read them
Iterate ==
    /\ ~ub
    /\ seen' = Elems(Cur)
    /\ last' = Call("iterate", "", -1, Cur, Cur)
    /\ UNCHANGED <<dq, heap, abs, ub, other>>

\* for (r = rbegin(); r != rend(); ++r) read *r
ReverseIterate ==
    /\ ~ub
    /\ seen' = ReverseElems(Cur)
    /\ last' = Call("reverse_iterate", "", -1, Cur, Cur)
    /\ UNCHANGED <<dq, heap, abs, ub, other>>

\* at(i), for i up to one past size(); the caller keeps the index and the
\* value it read through the reference
At ==
    LET m0 == Cur IN
    \E i \in 0..(size(m0) + 1) :
        LET AtEnd(m) ==
                /\ ~ub
                /\ Record(m, Call("at", IF i < size(m0) THEN "in" ELSE "out",
                                  i, m0, m),
                          abs)
                /\ seen' = IF Stop(m) THEN <<>> ELSE <<i, Deref(m, m.ret)>>
                /\ UNCHANGED other
        IN AtEnd(at(m0, i))

\* (*this)[i] for an index of the deque
Subscript ==
    LET m0 == Cur IN
    \E i \in 0..(size(m0) - 1) :
        LET SubscriptEnd(m) ==
                /\ ~ub
                /\ Record(m, Call("operator[]", "in", i, m0, m), abs)
                /\ seen' = <<i, Deref(m, m.ret)>>
                /\ UNCHANGED other
        IN SubscriptEnd([m0 EXCEPT !.ret = subscript(m0, i)])

\* queue::push(v) on the queue whose container is dq; for a queue, abs is
\* the list of the values pushed so far
QueuePush == \E v \in Values :
    LET m0 == Cur
        QueuePushEnd(m) ==
            /\ ~ub /\ Len(abs) < MaxLen
            /\ Commit(m, Call("queue_push",
                              PushCase(m0.finish.curr = _max_nodes - 1), -1,
                              m0, m),
                      Append(abs, v))
    IN QueuePushEnd(queue_push(m0, v))

\* a round of the caller: it reads queue::front() and calls queue::pop()
QueuePop ==
    LET m0 == Cur
        QueuePopEnd(m) ==
            /\ ~ub /\ ~empty(m0)
            /\ Record(m, Call("queue_pop",
                              PushCase(m0.start.curr = _max_nodes - 1), -1,
                              m0, m),
                      abs)
            /\ seen' = Append(seen, queue_front(m0))
            /\ UNCHANGED other
    IN QueuePopEnd(queue_pop(m0))

\* r = insert(begin() + i, v) with an rvalue v; the caller keeps i, v, the
\* index of r and the value it reads through r
InsertAt == \E v \in Values :
    LET m0 == Cur IN
    \E i \in 0..size(m0) :
        LET InsertAtEnd(m) ==
                /\ ~ub /\ size(m0) < MaxLen
                /\ Record(m, Call("insert", InsertCase(i, 1, size(m0)), i, m0,
                                  m),
                          Ins(Elems(m0), i, <<v>>))
                /\ seen' = [i |-> i, v |-> v,
                            index |-> IterDiff(m.ret, m.start),
                            value |-> Deref(m, m.ret)]
                /\ UNCHANGED other
        IN InsertAtEnd(insert(m0, IterPlus(m0.start, m0.map, i), v))

\* r = emplace(begin() + i, v)
EmplaceAt == \E v \in Values :
    LET m0 == Cur IN
    \E i \in 0..size(m0) :
        LET EmplaceAtEnd(m) ==
                /\ ~ub /\ size(m0) < MaxLen
                /\ Record(m, Call("emplace", InsertCase(i, 1, size(m0)), i, m0,
                                  m),
                          Ins(Elems(m0), i, <<v>>))
                /\ seen' = [i |-> i, v |-> v,
                            index |-> IterDiff(m.ret, m.start),
                            value |-> Deref(m, m.ret)]
                /\ UNCHANGED other
        IN EmplaceAtEnd(emplace(m0, IterPlus(m0.start, m0.map, i), v))

\* the cursor p elements after begin() (before it when p < 0), reached by
\* single steps
CursorAt(m, p) ==
    IF p >= 0 THEN Advance(m.start, m.map, p) ELSE Retreat(m.start, m.map, -p)

\* the positions, counted from begin(), of the first cell of the buffer
\* _start is in and of the last cell of the buffer _finish is in
LoPos(m) == -m.start.curr

HiPos(m) == size(m) + (_max_nodes - 1 - m.finish.curr)

\* what a call on iterators leaves in `last`
IterCall(op, br) == [Call(op, br, -1, Cur, Cur) EXCEPT !.n = 0]

\* r = c + n and r - n for the cursor c at index i and a target in the
\* buffers the deque has; the caller keeps c, n and the two results
CursorPlus ==
    LET m0 == Cur IN
    \E i \in 0..size(m0) : \E n \in (LoPos(m0) - i)..(HiPos(m0) - i) :
        LET c == CursorAt(m0, i)
            r == IterPlus(c, m0.map, n)
        IN /\ ~ub /\ ~other.live
           /\ seen' = [i |-> i, n |-> n, c |-> c, r |-> r,
                       back |-> IterMinus(r, m0.map, n)]
           /\ last' = IterCall("operator+",
                                IF r.node = c.node THEN "same"
                                ELSE IF n > 0 THEN "forward" ELSE "backward")
           /\ UNCHANGED <<dq, heap, abs, ub, other>>

\* a - b for the cursors at indices i and j, and (a + n) - a for
\* n = j - i; the caller keeps the indices and the two differences
CursorDiff ==
    LET m0 == Cur IN
    \E i \in 0..size(m0) : \E j \in 0..size(m0) :
        LET a == CursorAt(m0, i)
            b == CursorAt(m0, j)
        IN /\ ~ub
           /\ seen' = [i |-> i, j |-> j, d |-> IterDiff(a, b),
                       e |-> IterDiff(IterPlus(a, m0.map, j - i), a)]
           /\ last' = IterCall("operator-",
                                IF a.node = Null THEN "null"
                                ELSE IF a.node = b.node THEN "same"
                                ELSE "apart")
           /\ UNCHANGED <<dq, heap, abs, ub, other>>

\* a - b for two default-constructed iterators
CursorDiffNull ==
    /\ ~ub
    /\ seen' = [i |-> 0, j |-> 0, d |-> IterDiff(NullIter, NullIter),
                e |-> IterDiff(IterPlus(NullIter, <<>>, 0), NullIter)]
    /\ last' = IterCall("operator-", "default")
    /\ UNCHANGED <<dq, heap, abs, ub, other>>

\* the six comparisons of the cursors at indices i and j
CursorCompare ==
    LET m0 == Cur IN
    \E i \in 0..size(m0) : \E j \in 0..size(m0) :
        LET a == CursorAt(m0, i)
            b == CursorAt(m0, j)
        IN /\ ~ub /\ ~other.live
           /\ seen' = [i |-> i, j |-> j,
                       eq |-> IterEq(a, b), ne |-> IterNe(a, b),
                       lt |-> IterLess(a, b), gt |-> IterGreater(a, b),
                       le |-> IterLessEq(a, b), ge |-> IterGreaterEq(a, b)]
           /\ last' = IterCall("compare",
                                IF a.node = b.node THEN "same" ELSE "apart")
           /\ UNCHANGED <<dq, heap, abs, ub, other>>

\* t = c--, for the cursor c at index i of an element after the first: the
\* caller keeps c as it was (pre), t (ret), c as the call left it (c), what
\* --c leaves (dec), and what c-- leaves of a cursor that c++ has moved
\* (undo)
CursorPostDec ==
    LET m0 == Cur IN
    \E i \in 1..(size(m0) - 1) :
        LET c == CursorAt(m0, i)
        IN /\ ~ub /\ ~other.live
           /\ seen' = [i |-> i, pre |-> c,
                       ret |-> IterPostDec(c, m0.map).ret,
                       c |-> IterPostDec(c, m0.map).it,
                       dec |-> IterDec(c, m0.map),
                       undo |-> IterPostDec(IterPostInc(c, m0.map).it,
                                            m0.map).it]
           /\ last' = IterCall("operator--(int)",
                                IF c.curr = 0 THEN "cross" ELSE "same")
           /\ UNCHANGED <<dq, heap, abs, ub, other>>

\* ---------------------------------------------------------- specifications
\* pushes and pops at both ends of an initially empty deque
NextPushPop ==
    \/ PushFront(NoPlan, Values)
    \/ PushBack(NoPlan, Values)
    \/ PopFront
    \/ PopBack

SpecPushPop == InitDefault /\ [][NextPushPop]_vars

\* single insertions, with pops at the back
Next ==
    \/ Insert(NoPlan)
    \/ Emplace(NoPlan)
    \/ PopBack

Spec == InitAny /\ [][Next]_vars

\* list insertions
NextList == InsertList(NoPlan)

SpecList == InitAny /\ [][NextList]_vars

\* count insertions
NextCount == InsertCount(NoPlan)

SpecCount == InitAny /\ [][NextCount]_vars

\* range erasures, with pops at the front
NextErase ==
    \/ EraseRange
    \/ PopFront

SpecErase == InitAny /\ [][NextErase]_vars

\* an insertion undone by the erasure of what it returned, with pops at the
\* front
NextInsertErase ==
    \/ InsertErase
    \/ PopFront

SpecInsertErase == InitAny /\ [][NextInsertErase]_vars

\* pushes in which an allocation or the construction may fail, and pops
NextPushFail ==
    \/ PushFront(NoPlan \cup PushPlans, OneValue)
    \/ PushBack(NoPlan \cup PushPlans, OneValue)
    \/ EmplaceFront(NoPlan \cup PushPlans, OneValue)
    \/ EmplaceBack(NoPlan \cup PushPlans, OneValue)
    \/ PopFront
    \/ PopBack

SpecPushFail == InitDefault /\ [][NextPushFail]_vars

\* a bulk insertion in which an allocation or a construction fails, on a
\* deque left by a constructor; what follows a failure is not explored
NextBulkFail ==
    \/ ~last.failed /\ InsertCount(Plans)
    \/ ~last.failed /\ InsertList(Plans)

SpecBulkFail == (InitAny \/ InitListFailed) /\ [][NextBulkFail]_vars

\* a move construction from a deque left by a constructor and pushes, and
\* pushes, clear() and the destructor on the deque before and after it was
\* moved from
NextMove ==
    \/ ~Gone /\ MoveConstruct
    \/ ~Gone /\ PushFront(NoPlan, OneValue)
    \/ ~Gone /\ PushBack(NoPlan, OneValue)
    \/ ~Gone /\ Clear
    \/ ~Gone /\ Destruct

SpecMove == InitAny /\ [][NextMove]_vars

\* a copy construction from a list-constructed deque, then at most MaxCalls
\* calls: swaps of the two deques, and pushes, pops and clear() on the
\* first, each deque holding at most MaxPair elements
Paired == other.live /\ last.n < MaxCalls

InitPair == InitList /\ Len(abs) <= MaxPair

NextCopy ==
    \/ CopyConstruct
    \/ Paired /\ Swap
    \/ Paired /\ size(Cur) < MaxPair /\ PushFront(NoPlan, Values)
    \/ Paired /\ size(Cur) < MaxPair /\ PushBack(NoPlan, Values)
    \/ Paired /\ PopFront
    \/ Paired /\ PopBack
    \/ Paired /\ Clear

SpecCopy == InitPair /\ [][NextCopy]_vars

\* pushes on an initially empty queue and rounds of front() and pop()
NextQueue ==
    \/ QueuePush
    \/ QueuePop

SpecQueue == InitDefault /\ [][NextQueue]_vars

\* element access by at() and operator[] on a deque left by a constructor
\* and pushes and pops at the front
NextAccess ==
    \/ At
    \/ Subscript
    \/ PushFront(NoPlan, OneValue)
    \/ PopFront

SpecAccess == InitAny /\ [][NextAccess]_vars

\* forward and reverse iteration over a deque constructed from a list
NextRoundTrip ==
    \/ Iterate
    \/ ReverseIterate

SpecRoundTrip == InitList /\ [][NextRoundTrip]_vars

\* resizes of a deque left by a constructor, with pops at the front
NextResize ==
    \/ Resize
    \/ ResizeDefault
    \/ PopFront

SpecResize == InitAny /\ [][NextResize]_vars

\* clear() among pushes at both ends and pops at the front
NextClear ==
    \/ Clear
    \/ PushFront(NoPlan, Values)
    \/ PushBack(NoPlan, Values)
    \/ PopFront

SpecClear == InitDefault /\ [][NextClear]_vars

\* pushes at the back of an initially empty deque, up to MaxGrow elements,
\* and pops at the front
NextGrow ==
    \/ PushBackGrow
    \/ PopFront

SpecGrow == InitDefault /\ [][NextGrow]_vars

\* operations on the cursors of a deque that deque(count, value) has made
\* and that pushes and pops at the front have shaped, and of the deque a
\* move constructor has taken the members of
NextCursor ==
    \/ CursorPlus
    \/ CursorDiff
    \/ CursorDiffNull
    \/ CursorCompare
    \/ CursorPostDec
    \/ ~other.live /\ PushFront(NoPlan, OneValue)
    \/ ~other.live /\ PopFront
    \/ MoveConstruct

SpecCursor == InitFillOne /\ [][NextCursor]_vars

\* single insertions whose result the caller looks at, on a deque that
\* deque(count, value) has made
NextInsertAt ==
    \/ InsertAt
    \/ EmplaceAt

SpecInsertAt == InitFillOne /\ [][NextInsertAt]_vars

\* pushes and pops at both ends of an initially empty deque, up to MaxMap
\* elements
NextMap ==
    \/ size(Cur) < MaxMap /\ PushFrontGrow
    \/ size(Cur) < MaxMap /\ PushBackGrow
    \/ PopFront
    \/ PopBack

SpecMap == InitDefault /\ [][NextMap]_vars

\* list insertions in which the construction of an element may throw, on a
\* deque that deque(count, value) has made; what follows a failure is not
\* explored
NextThrow == ~last.failed /\ InsertList(NoPlan \cup ConstructPlans)

SpecThrow == InitFillOne /\ [][NextThrow]_vars

\* what destroys elements: pops, range erasures, clear(), resizes and the
\* destructor, on a deque that deque(count, value) has made
NextDestroy ==
    \/ ~Gone /\ PopFront
    \/ ~Gone /\ PopBack
    \/ ~Gone /\ EraseRange
    \/ ~Gone /\ Clear
    \/ ~Gone /\ ResizeDefault
    \/ ~Gone /\ Destruct

SpecDestroy == InitFillOne /\ [][NextDestroy]_vars

\* ------------------------------------------------------------ properties
\* what forward iteration from begin() to end() yields
Walk == Elems(Cur)

\* size() is the number of steps of the walk and empty() tells whether it
\* is 0
SizeIsWalk ==
    /\ size(Cur) = Len(Walk)
    /\ empty(Cur) <=> (Len(Walk) = 0)

\* C1: in every state reached from a constructor by pushes, pops,
\* insertions and erasures, size() is the number of steps from begin() to
\* end() and empty() holds exactly when that number is 0.  (Stated over the
\* count insertions, where it fails: a state whose behaviour is undefined
\* has no size.)
C1_SizeIsWalkCount == ~ub /\ SizeIsWalk

\* C2: after every sequence of push_front, push_back, pop_front and
\* pop_back on an initially empty deque, forward iteration yields the
\* abstract list (prepend, append, drop first, drop last) and front() and
\* back() are that list's first and last items.
C2_PushPopRefinesList ==
    /\ ~ub
    /\ Walk = abs
    /\ abs # <<>> => front(Cur) = abs[1] /\ back(Cur) = abs[Len(abs)]

\* C2 witness: a list that spans two buffers, in a map that a push at the
\* front had to reallocate
C2_Witness ==
    /\ last.op = "push_front" /\ last.br = "slow"
    /\ dq.map_size > INITIAL_MAP_SIZE
    /\ dq.start.node # dq.finish.node
    /\ Walk = abs /\ Len(abs) = MaxLen

\* C3: insert(begin() + i, v) and emplace(begin() + i, v) on a deque holding
\* s leave s[0..i) ++ [v] ++ s[i..) and size() one more, for every i in
\* 0..size(): at begin(), at end(), in the front half and in the back half.
C3_InsertOne ==
    /\ ~ub
    /\ SizeIsWalk
    /\ last.op \in {"insert", "emplace"} => ~last.thrown /\ Walk = abs

\* C3 witness: an insertion in the front half, which shifts the prefix
C3_Witness ==
    /\ last.op = "insert" /\ last.br = "front_ge"
    /\ Walk = abs /\ size(Cur) = MaxLen

\* C4: insert(begin() + i, n, x) on a deque holding s leaves
\* s[0..i) ++ n copies of x ++ s[i..) and size() n more, at begin(), at
\* end(), in the front half and in the back half, with more than n or at
\* most n elements after the position.
C4_InsertCount ==
    last.op = "insert_n" =>
        ~ub /\ ~last.thrown /\ Walk = abs /\ size(Cur) = Len(abs)

\* C5: insert(begin() + i, l) on a deque holding s leaves
\* s[0..i) ++ l ++ s[i..) and size() Len(l) more, in every branch: at
\* begin(), at end(), front half with i >= n and i < n, back half with more
\* than n and at most n elements after the position.
C5_InsertList ==
    /\ ~ub
    /\ SizeIsWalk
    /\ last.op = "insert_list" => ~last.thrown /\ Walk = abs

\* C5 witness: a list inserted in the front half before fewer elements than
\* it has
C5_Witness ==
    /\ last.op = "insert_list" /\ last.br = "front_lt"
    /\ Walk = abs /\ size(Cur) = MaxLen + 1

\* C6: erase(begin() + a, begin() + b) on a deque holding s leaves
\* s[0..a) ++ s[b..), size() b - a less, and returns the iterator at
\* index a.
C6_EraseRange ==
    last.op = "erase_range" =>
        /\ ~ub
        /\ Walk = abs /\ size(Cur) = Len(abs)
        /\ last.returned /\ last.ret = 0

\* C7: erasing the iterator returned by insert(pos, v) restores the
\* sequence and the size, for every pos in [begin(), end()].
C7_EraseInsert ==
    last.op = "erase_insert" => ~ub /\ Walk = abs /\ size(Cur) = Len(abs)

\* C8: when a map allocation, a buffer allocation or the construction
\* fails in push_back, push_front, emplace_back or emplace_front, the call
\* throws and the sequence, size() and the owned buffers are as before.
C8_PushStrongGuarantee ==
    [][(last'.failed /\ last'.op \in {"push_back", "push_front",
                                      "emplace_back", "emplace_front"})
       => /\ last'.thrown /\ ~ub'
          /\ Walk' = Walk /\ size(Cur)' = size(Cur)
          /\ Owned(heap') = Owned(heap) /\ heap' = heap]_vars

\* C8 witness: a push_back on its slow path whose construction failed,
\* after the new buffer was allocated
C8_Witness ==
    /\ last.op = "push_back" /\ last.br = "slow"
    /\ last.failed /\ last.cause = "construct" /\ last.thrown
    /\ Len(Walk) > 0

\* C9: when the allocation of a new buffer fails in a count or list
\* insertion, the call throws, the buffers of the batch are released, no
\* other buffer is, and the sequence and size() are as before.
C9_BatchRollback ==
    [][(last'.cause = "alloc"
        /\ last'.op \in {"insert_n", "insert_list"})
       => /\ last'.thrown /\ ~ub'
          /\ Walk' = Walk /\ size(Cur)' = size(Cur)
          /\ heap' = heap]_vars

\* C10: a failure of an allocation or of a construction in the list
\* constructor or in a count or list insertion is thrown to the caller:
\* the call does not return.
C10_FailureRethrown ==
    (last.failed /\ last.op \in {"deque_list", "insert_n", "insert_list"})
        => ~ub /\ last.thrown

\* the second deque as a machine with no failure planned
Other == Machine(other.dq, heap, 0, 0)

\* C11: after b(std::move(a)), b holds the sequence a held, a has size() 0
\* and is empty(), and every later push_front, push_back, clear() and
\* destruction of a stays within defined behaviour and leaves b's sequence
\* alone.
C11_MovedFromValid ==
    other.live =>
        /\ ~ub
        /\ Elems(Other) = other.abs
        /\ size(Cur) = Len(abs)
        /\ last.op = "deque_move" => size(Cur) = 0 /\ empty(Cur)

\* the buffers of the nodes [_start._node, _finish._node] of a deque
BuffersOf(d) == {Slot(d.map, k) : k \in d.start.node..d.finish.node}

\* C12: b(a) leaves b with a's sequence; from then on the two deques share
\* no buffer, and whatever is called on one of them (pushes, pops,
\* insertions, clear(), also after swaps) the other keeps its sequence and
\* its size.
C12_CopyIndependent ==
    other.live =>
        /\ ~ub
        /\ BuffersOf(dq) \cap BuffersOf(other.dq) = {}
        /\ Elems(Cur) = abs /\ size(Cur) = Len(abs)
        /\ Elems(Other) = other.abs /\ size(Other) = Len(other.abs)
        /\ last.op = "deque_copy" => other.abs = abs

\* C12 witness: after a swap, a push at the front of the copy that needed a
\* new buffer, beside an original that spans two buffers
C12_Witness ==
    /\ other.live /\ other.swapped
    /\ last.op = "push_front" /\ last.br = "slow"
    /\ Len(other.abs) = MaxPair /\ Elems(Other) = other.abs
    /\ Len(abs) > 1 /\ Elems(Cur) = abs /\ abs # other.abs

\* C13: a.swap(b) leaves a with b's members and b with a's, changes no
\* buffer (no element is constructed, destroyed or copied, nothing is
\* allocated or released), and a second swap gives back the first state.
C13_SwapExchanges ==
    [][last'.op = "swap" =>
          /\ dq' = other.dq /\ other'.dq = dq
          /\ heap' = heap
          /\ Elems(Cur)' = Elems(Other) /\ Elems(Other)' = Elems(Cur)
          /\ swap(dq', other'.dq) = [this |-> dq, other |-> other.dq]]_vars

\* C13 witness: a swap of two deques that hold different sequences in
\* different numbers of buffers
C13_Witness ==
    /\ last.op = "swap" /\ other.swapped
    /\ Len(abs) = MaxPair /\ Len(other.abs) = 1
    /\ Elems(Cur) = abs /\ Elems(Other) = other.abs

\* C14: on a queue, the values read by front() before each pop(), followed
\* by what the container still holds, are the values pushed, in the order
\* they were pushed; size() is the number of pushes less the number of
\* pops; so n rounds after n pushes have read x1 .. xn and the queue is
\* empty.
C14_QueueFIFO ==
    /\ ~ub
    /\ seen \o Walk = abs
    /\ size(Cur) = Len(abs) - Len(seen)
    /\ Len(seen) = Len(abs) => empty(Cur) /\ seen = abs

\* C14 witness: MaxLen values, which span three buffers, pushed and then
\* read and popped one by one
C14_Witness ==
    /\ last.op = "queue_pop"
    /\ Len(abs) = MaxLen /\ seen = abs /\ empty(Cur)
    /\ abs[1] # abs[2] /\ abs[MaxLen] # abs[1]

\* C15: for every index i of the deque, begin() + i, (*this)[i] and at(i)
\* are the cell that i steps of ++ from begin() reach, and that cell holds
\* the i-th element.
C15_RandomAccess ==
    /\ ~ub
    /\ \A i \in 0..(size(Cur) - 1) :
          /\ IterPlus(dq.start, dq.map, i) = Advance(dq.start, dq.map, i)
          /\ subscript(Cur, i) = Advance(dq.start, dq.map, i)
          /\ ~at(Cur, i).exc
          /\ at(Cur, i).ret = Advance(dq.start, dq.map, i)
          /\ Deref(Cur, Advance(dq.start, dq.map, i)) = abs[i + 1]
    /\ last.op \in {"at", "operator[]"} /\ last.br = "in" =>
          /\ last.returned /\ last.ret = 0
          /\ seen = <<seen[1], abs[seen[1] + 1]>>

\* C15 witness: at(i) for an element two buffers after the one begin() is
\* in, in a deque whose first buffer is not full
C15_Witness ==
    /\ last.op = "at" /\ last.br = "in" /\ ~last.thrown
    /\ dq.start.curr > 0
    /\ subscript(Cur, seen[1]).node = dq.start.node + 2
    /\ seen[2] = abs[seen[1] + 1] /\ seen[2] # abs[1]

\* C19: at(i) with i >= size() throws and leaves the members of the deque
\* and the buffers (so the sequence, size() and the two cursors) as they
\* were; at(i) with i < size() does not throw.
C19_AtChecked ==
    [][last'.op = "at" =>
          /\ ~ub'
          /\ last'.br = "out" =>
                last'.thrown /\ dq' = dq /\ heap' = heap /\ Walk' = Walk
          /\ last'.br = "in" => ~last'.thrown]_vars

\* C19 witness: at(size()) has thrown on a deque that is not empty
C19_Witness ==
    /\ last.op = "at" /\ last.br = "out" /\ last.thrown
    /\ size(Cur) = MaxLen /\ Walk = abs

\* the list s from its last item to its first
Reverse(s) == [k \in 1..Len(s) |-> s[Len(s) + 1 - k]]

\* C16: a deque constructed from a list L of any length from 0 (a multiple
\* of the buffer capacity or not) has size() = Len(L); iterating from
\* begin() to end() reads L, and iterating from rbegin() to rend() reads L
\* reversed.
C16_RoundTrip ==
    /\ ~ub
    /\ size(Cur) = Len(abs)
    /\ last.op = "deque_list" => ~last.thrown
    /\ last.op = "iterate" => seen = abs
    /\ last.op = "reverse_iterate" => seen = Reverse(abs)

\* C16 witness: a reverse iteration over a list that fills two buffers
\* exactly
C16_Witness ==
    /\ last.op = "reverse_iterate"
    /\ Len(abs) = 2 * _max_nodes
    /\ seen = Reverse(abs) /\ seen # abs

\* C17: resize(n, v) on a deque holding s leaves s followed by n - size()
\* copies of v when n > size(), the first n elements of s when n < size()
\* and s when n = size(), and size() = n; resize(n) does the same with a
\* default-constructed value.
C17_Resize ==
    /\ ~ub
    /\ Walk = abs /\ size(Cur) = Len(abs)
    /\ last.op = "resize" => ~last.thrown

\* C17 witness: a resize that grew a deque whose first buffer is not full
\* into a buffer it did not have
C17_Witness ==
    /\ last.op = "resize" /\ last.br = "grow"
    /\ dq.start.curr > 0
    /\ Len(abs) = MaxLen /\ Walk = abs /\ abs[1] # abs[MaxLen]

\* C18: clear() leaves size() = 0 and empty(), and one allocated buffer,
\* the one both cursors are in; no buffer is released twice; the pushes
\* that follow build their sequence as on a new deque; and in every state
\* clear() would leave what erase(begin(), end()) would.
C18_Clear ==
    /\ ~ub
    /\ Walk = abs /\ size(Cur) = Len(abs)
    /\ ~clear(Cur).ub
    /\ DequeOf(clear(Cur)) = DequeOf(erase_range(Cur, dq.start, dq.finish))
    /\ clear(Cur).heap = erase_range(Cur, dq.start, dq.finish).heap
    /\ last.op = "clear" =>
          /\ size(Cur) = 0 /\ empty(Cur)
          /\ Cardinality(Owned(heap)) = 1
          /\ Owned(heap) = BuffersOf(dq)

\* C18 witness: a clear() that released two buffers
C18_Witness ==
    /\ last.op = "clear"
    /\ Cardinality({k \in 1..Len(dq.map) : dq.map[k] = Indet}) = 2
    /\ size(Cur) = 0 /\ Cardinality(Owned(heap)) = 1

\* the size of the map array before the k-th change of _map_size
SizeBefore(k) == IF k = 1 THEN INITIAL_MAP_SIZE ELSE seen[k - 1]

\* C20: under pushes at the back of an initially empty deque _map_size
\* never decreases; each time it changes the new size is
\* old + max(old, 1) + 2, more than twice the old one; so the number of map
\* arrays allocated after the first, k, satisfies 8 * 2^k <= _map_size.
C20_MapGrowth ==
    /\ ~ub
    /\ dq.map_size = SizeBefore(Len(seen) + 1)
    /\ \A k \in 1..Len(seen) :
          /\ seen[k] = SizeBefore(k) + Max(SizeBefore(k), 1) + 2
          /\ seen[k] > 2 * SizeBefore(k)
    /\ INITIAL_MAP_SIZE * 2 ^ Len(seen) <= dq.map_size

\* C20 witness: the push that made the map array grow for the second time
C20_Witness ==
    /\ last.op = "push_back" /\ last.br = "slow"
    /\ Len(seen) = 2 /\ dq.map_size = seen[2]
    /\ Walk = abs

\* the cursor n single steps from c: advances for n >= 0, retreats for n < 0
Steps(c, map, n) == IF n >= 0 THEN Advance(c, map, n) ELSE Retreat(c, map, -n)

\* C26: for a cursor c into the deque and a signed n whose target is in a
\* buffer the deque has, c + n is the cursor n single advances or -n single
\* retreats reach, its node is floor((n + offset of c) / get_nnodes) nodes
\* from c's, its position is inside its buffer, and (c + n) - n is c.
C26_PlusIsSteps ==
    last.op = "operator+" =>
        /\ seen.r = Steps(seen.c, dq.map, seen.n)
        /\ seen.r.node - seen.c.node = (seen.n + seen.c.curr) \div get_nnodes
        /\ seen.r.curr \in 0..(get_nnodes - 1)
        /\ seen.r.first = dq.map[seen.r.node]
        /\ seen.back = seen.c

\* C26 witness: a negative n that takes the cursor from the last buffer to
\* the last cell of the buffer two nodes before it
C26_Witness ==
    /\ last.op = "operator+" /\ last.br = "backward"
    /\ seen.n < 0 /\ (seen.n + seen.c.curr) % get_nnodes = get_nnodes - 1
    /\ seen.r.node = seen.c.node - 2
    /\ seen.r = Steps(seen.c, dq.map, seen.n)

\* C27: for the cursors a and b at indices i and j, in either order and in
\* the same buffer or not, a - b is i - j and (a + n) - a is n; the
\* difference of two null cursors (default-constructed, or of a deque that
\* was moved from) is 0.
C27_DiffIsIndexDiff ==
    last.op = "operator-" =>
        /\ seen.d = seen.i - seen.j
        /\ seen.e = seen.j - seen.i
        /\ last.br \in {"null", "default"} => seen.d = 0

\* C27 witness: a - b for a two nodes before b, neither at the first cell
\* of its buffer
C27_Witness ==
    /\ last.op = "operator-" /\ last.br = "apart"
    /\ seen.i < seen.j /\ seen.d = seen.i - seen.j /\ seen.d < -get_nnodes
    /\ dq.start.curr > 0

\* C28: for the cursors a and b at indices i and j, a == b iff i = j,
\* a != b iff i # j, a < b iff i < j, a > b iff i > j, a <= b iff i <= j
\* and a >= b iff i >= j.
C28_CompareIsIndexOrder ==
    last.op = "compare" =>
        /\ seen.eq <=> seen.i = seen.j
        /\ seen.ne <=> seen.i # seen.j
        /\ seen.lt <=> seen.i < seen.j
        /\ seen.gt <=> seen.i > seen.j
        /\ seen.le <=> seen.i <= seen.j
        /\ seen.ge <=> seen.i >= seen.j

\* C30: t = c-- leaves t at the position c had and c one element before
\* it, where --c would have left it, also across the boundary of a buffer;
\* c-- after c++ leaves c where it was.
C30_PostDec ==
    last.op = "operator--(int)" =>
        /\ seen.ret = seen.pre
        /\ seen.c = seen.dec
        /\ seen.c = CursorAt(Cur, seen.i - 1)
        /\ seen.undo = seen.pre

\* C29: insert(pos, v) and emplace(pos, v) return a cursor to the element
\* inserted, for every pos from begin() to end(): its index is the index
\* pos had and the value read through it is v.
C29_InsertReturnsNew ==
    last.op \in {"insert", "emplace"} =>
        /\ ~ub /\ last.returned
        /\ seen.index = seen.i
        /\ seen.value = seen.v

\* the map slots from the one _start is in to the one _finish is in
ActiveSlots(d) == d.start.node..d.finish.node

\* C21: in every state reached from a constructor by pushes and pops (and
\* insertions and erasures), _map_size is at least the number of map slots
\* from _start._node to _finish._node plus 2, and at least
\* INITIAL_MAP_SIZE.
C21_MapHeadroom ==
    /\ ~ub
    /\ dq.map_size >= Cardinality(ActiveSlots(dq)) + 2
    /\ dq.map_size >= INITIAL_MAP_SIZE

\* C22: in every reachable state each map slot from _start._node to
\* _finish._node holds an allocated buffer and every other slot of the map
\* array is null, also after a pop has released a boundary buffer and
\* after the map has been recentred or replaced by a new array.
C22_SlotsNullOutside ==
    /\ ~ub
    /\ \A k \in 1..Len(dq.map) :
          IF k \in ActiveSlots(dq) THEN Allocated(heap, dq.map[k])
          ELSE dq.map[k] = Null

\* C23: in every state reached without a failed allocation, the allocated
\* buffers are exactly the buffers of the map slots from _start._node to
\* _finish._node, one buffer for each slot, and there is at least one;
\* none is leaked and none is released twice (which is undefined
\* behaviour).
C23_BuffersAreActiveSlots ==
    /\ ~ub
    /\ Owned(heap) = BuffersOf(dq)
    /\ Owned(heap) # {}
    /\ Cardinality(BuffersOf(dq)) = Cardinality(ActiveSlots(dq))

\* the cells of the elements of [begin(), end())
RECURSIVE CellsFrom(_, _, _, _)
CellsFrom(m, it, fin, fuel) ==
    IF IterEq(it, fin) \/ fuel = 0 THEN {}
    ELSE {<<it.first, it.curr>>}
         \cup CellsFrom(m, IterInc(it, m.map), fin, fuel - 1)

LiveCells(m) == CellsFrom(m, m.start, m.finish, Fuel(m))

\* C24: no call destroys or assigns to a position that holds no
\* constructed element (a position at or after the back cursor, or one
\* already destroyed); the elements that stay in the live range are not
\* destroyed and hold what they held; the elements removed are destroyed:
\* every cell outside the live range holds no object.
C24_DestroyExactly ==
    /\ ~ub
    /\ ~last.wild
    /\ Walk = abs
    /\ \A k \in 1..Len(Walk) : Walk[k] # Raw
    /\ \A b \in Owned(heap) : \A o \in 0..(_max_nodes - 1) :
          <<b, o>> \notin LiveCells(Cur) => heap[b][o + 1] = Raw

\* a boundary cursor of the deque d: its node is a slot of the map array,
\* its buffer is the allocated buffer the slot holds, and its position is
\* in that buffer or at its end
CursorOk(d, it) ==
    /\ it.node \in 1..Len(d.map)
    /\ it.first = d.map[it.node]
    /\ Allocated(heap, it.first)
    /\ it.curr \in 0..get_nnodes

\* C25: in every reachable state _start and _finish have their position
\* within the buffer their slot holds and their slots inside the map
\* array, _start's not after _finish's; no write of a slot goes outside
\* the map array (which is undefined behaviour).
C25_CursorsInBounds ==
    /\ ~ub
    /\ Len(dq.map) = dq.map_size
    /\ CursorOk(dq, dq.start) /\ CursorOk(dq, dq.finish)
    /\ dq.start.node <= dq.finish.node

====
